---- MODULE Spec2Model ----
(***************************************************************************)
(* Model of the EML_NL reader core of rust-eml-nl: the streaming element   *)
(* reader (src/src/io/reader.rs), the error model (src/src/error.rs), the  *)
(* typed value store (src/src/utils/string_value.rs) and the slot          *)
(* iteration routine collect_struct!, instantiated with schema bindings    *)
(* taken from src/src/documents.                                           *)
(***************************************************************************)
EXTENDS Integers, Sequences, FiniteSets, TLC

VARIABLES doc, events, ty, res, sv, mt, rd, wr, rt

vars == <<doc, events, ty, res, sv, mt, rd, wr, rt>>

(***************************************************************************)
(* Namespaces and qualified names.  An absent namespace is the empty       *)
(* sequence, a present one the one-element sequence holding the URI.       *)
(***************************************************************************)
NS_EML == "urn:oasis:names:tc:evs:schema:eml"
NS_KR == "http://www.kiesraad.nl/extensions"
NS_DS == "http://www.w3.org/2000/09/xmldsig#"
EML_SCHEMA_VERSION == "5"
EML_CANDIDATE_LIST_ID == "230b"

QualifiedName(local, ns) == [local_name |-> local, namespace |-> ns]
QN(local, uri) == QualifiedName(local, <<uri>>)
QNone(local) == QualifiedName(local, <<>>)
NoName == QualifiedName("", <<>>)
\* a name as the resolver of quick-xml reports it: namespace <<uri>> is
\* ResolveResult::Bound, <<>> is Unbound, and Unknown(prefix) is a name whose prefix has
\* no binding in scope
Unknown(local, prefix) == QualifiedName(local, <<prefix, "Unknown">>)
is_unknown(resolved) == Len(resolved.namespace) = 2

\* derived PartialEq of QualifiedName: both fields structurally equal
QNameEq(a, b) == a.local_name = b.local_name /\ a.namespace = b.namespace

\* EMLElementReader::is_resolved_name
IsResolvedName(resolved, expected) ==
    LET matches_local == resolved.local_name = expected.local_name
        matches_namespace ==
            IF expected.namespace # <<>> /\ resolved.namespace # <<>>
            THEN expected.namespace[1] = resolved.namespace[1]
            ELSE expected.namespace = <<>> /\ resolved.namespace = <<>>
    IN  matches_local /\ matches_namespace

(***************************************************************************)
(* Spans and parsing modes.                                                *)
(***************************************************************************)
Span(s, e) == [start |-> s, end |-> e]
NoSpan == Span(-1, -1)

EMLParsingMode == {"Strict", "StrictFallback", "Loose"}
\* EMLParsingMode::is_strict is called by the schema bindings; its definition is not
\* among the source files and it is taken to single out the Strict variant.
is_strict(mode) == mode = "Strict"

\* A local binding `let r = v` is written (CHOOSE the \in {e : r \in {v}} : TRUE):
\* the value of e with r bound to v

(***************************************************************************)
(* Error model (src/src/error.rs).                                         *)
(***************************************************************************)
Kind(name, a, b) == [name |-> name, a |-> a, b |-> b]
Kind0(name) == Kind(name, NoName, NoName)
Kind1(name, a) == Kind(name, a, NoName)

Positioned(kind, span) == [tag |-> "Positioned", kind |-> kind, span |-> span, errors |-> <<>>]
Multiple(errors) == [tag |-> "Multiple", kind |-> Kind0(""), span |-> NoSpan, errors |-> errors]
NoError == [tag |-> "None", kind |-> Kind0(""), span |-> NoSpan, errors |-> <<>>]

\* EMLError::invalid_value (the type-erased source is not kept)
invalid_value(field, span) == Positioned(Kind1("InvalidValue", field), span)

\* EMLError::from_vec_with_additional
from_vec_drops_accumulated(errors, error) == error
from_vec_with_additional(errors, error) ==
    (CHOOSE the \in {IF Len(pushed) = 1 THEN pushed[1] ELSE Multiple(pushed) :
         pushed \in {Append(errors, error)}} : TRUE)

\* EMLError::kind
RECURSIVE kind_of_first(_)
kind_of_first(e) ==
    IF e.tag = "Multiple" THEN kind_of_first(e.errors[1]) ELSE e.kind
RECURSIVE kind(_)
kind(e) ==
    IF e.tag = "Multiple" THEN kind(e.errors[Len(e.errors)]) ELSE e.kind

\* EMLError::span
RECURSIVE span(_)
span(e) ==
    IF e.tag = "Multiple" THEN span(e.errors[Len(e.errors)]) ELSE e.span

\* EMLError::is_fatal
is_fatal(e) == kind(e).name \notin {"UnexpectedElement", "InvalidValue"}

(***************************************************************************)
(* Typed value store (src/src/utils/string_value.rs and the field types).  *)
(* A parsed value is [ty, n, s, tz]: the number for the numeric types, the *)
(* string for the string-like types, date and timezone for XsDate.  Every  *)
(* parser is given on the sample texts of the model; other texts are not   *)
(* accepted by any of the parsers below.                                   *)
(***************************************************************************)
PV(t, n, s, tz) == [ty |-> t, n |-> n, s |-> s, tz |-> tz]
NoVal == PV("", 0, "", "")
POk(v) == [ok |-> TRUE, v |-> v]
PErr == [ok |-> FALSE, v |-> NoVal]

\* str::parse::<u64>: an optional plus sign, then decimal digits
U64Texts == ("0" :> 0) @@ ("1" :> 1) @@ ("01" :> 1) @@ ("+1" :> 1) @@ ("42" :> 42)
U64Raw == (0 :> "0") @@ (1 :> "1") @@ (42 :> "42")

ElectionCategoryTexts ==
    {"EK", "TK", "EP", "PS", "AB", "GR", "BC", "GC", "ER", "NR", "PR", "LR", "IR"}
ElectionSubcategoryTexts ==
    {"PS1", "PS2", "AB1", "AB2", "GR1", "GR2", "BC", "GC", "ER1", "TK", "EK", "EP",
     "NR", "PR", "LR", "IR"}
VotingMethodTexts ==
    {"AMS", "FPP", "IRV", "NOR", "OPV", "RCV", "SPV", "STV", "cumulative", "approval",
     "block", "supporterlist", "partisan", "supplementaryvote", "other"}
\* sample texts matching ELECTION_ID_RE, ELECTION_DOMAIN_ID_RE and CONTEST_ID_RE
ElectionIdTexts == {"TK2025", "GR20260318"}
ElectionDomainIdTexts == {"0363", "1", "x1"}
ContestIdTexts == {"1", "42", "geen", "alle", "IV", ""}
\* sample texts accepted by XsDate::from_str: [date, timezone]
XsDateTexts ==
    ("2025-10-05" :> <<"2025-10-05", "">>) @@ ("2025-10-05Z" :> <<"2025-10-05", "+00:00">>)
    @@ ("2025-10-05+00:00" :> <<"2025-10-05", "+00:00">>)

\* sample texts accepted by XsDateTime::from_str: [date-time, timezone]
XsDateTimeTexts ==
    ("2025-10-05T12:00:00" :> <<"2025-10-05T12:00:00", "">>)
    @@ ("2025-10-05T12:00:00Z" :> <<"2025-10-05T12:00:00", "+00:00">>)
    @@ ("2025-10-05T12:00:00+00:00" :> <<"2025-10-05T12:00:00", "+00:00">>)
\* XsDateOrDateTime::from_str: a text with a 'T' is a date-time, any other a date
XsDateOrDateTimeTexts == XsDateTimeTexts @@ XsDateTexts

StringValueTypes ==
    {"u64", "NonZeroU64", "ElectionCategory", "ElectionSubcategory", "VotingMethod",
     "ElectionIdType", "ElectionDomainIdType", "ContestIdType", "XsDate", "XsDateTime",
     "XsDateOrDateTime", "String"}

\* StringValueData::parse_from_str.  The implementation for NonZeroU64 is not among
\* the source files; it is taken to be str::parse::<NonZeroU64>, like the one for u64.
parse_from_str(t, s) ==
    CASE t = "u64" ->
            IF s \in DOMAIN U64Texts THEN POk(PV(t, U64Texts[s], "", "")) ELSE PErr
      [] t = "NonZeroU64" ->
            IF s \in DOMAIN U64Texts /\ U64Texts[s] # 0
            THEN POk(PV(t, U64Texts[s], "", "")) ELSE PErr
      [] t = "ElectionCategory" ->
            IF s \in ElectionCategoryTexts THEN POk(PV(t, 0, s, "")) ELSE PErr
      [] t = "ElectionSubcategory" ->
            IF s \in ElectionSubcategoryTexts THEN POk(PV(t, 0, s, "")) ELSE PErr
      [] t = "VotingMethod" ->
            IF s \in VotingMethodTexts THEN POk(PV(t, 0, s, "")) ELSE PErr
      [] t = "ElectionIdType" ->
            IF s \in ElectionIdTexts THEN POk(PV(t, 0, s, "")) ELSE PErr
      [] t = "ElectionDomainIdType" ->
            IF s \in ElectionDomainIdTexts THEN POk(PV(t, 0, s, "")) ELSE PErr
      [] t = "ContestIdType" ->
            IF s \in ContestIdTexts THEN POk(PV(t, 0, s, "")) ELSE PErr
      [] t = "XsDate" ->
            IF s \in DOMAIN XsDateTexts
            THEN POk(PV(t, 0, XsDateTexts[s][1], XsDateTexts[s][2])) ELSE PErr
      [] t = "XsDateTime" ->
            IF s \in DOMAIN XsDateTimeTexts
            THEN POk(PV(t, 0, XsDateTimeTexts[s][1], XsDateTimeTexts[s][2])) ELSE PErr
      [] t = "XsDateOrDateTime" ->
            IF s \in DOMAIN XsDateOrDateTimeTexts
            THEN POk(PV(t, 0, XsDateOrDateTimeTexts[s][1], XsDateOrDateTimeTexts[s][2]))
            ELSE PErr
      [] OTHER -> POk(PV(t, 0, s, ""))

\* StringValueData::to_raw_value
to_raw_value(v) ==
    CASE v.ty \in {"u64", "NonZeroU64"} -> U64Raw[v.n]
      [] v.ty \in {"XsDate", "XsDateTime", "XsDateOrDateTime"} -> v.s \o v.tz
      [] OTHER -> v.s

(***************************************************************************)
(* Values produced by the schema bindings.  Every value has the same       *)
(* shape: StringValue::Raw / StringValue::Parsed, a plain String ("Text"), *)
(* Option::None, a struct (its fields in declaration order), a Vec, or a   *)
(* unit struct.  Option::Some(x) is x.                                     *)
(***************************************************************************)
FV(variant, s, v, sub) == [variant |-> variant, s |-> s, v |-> v, sub |-> sub]
Raw(s) == FV("Raw", s, NoVal, <<>>)
Parsed(v) == FV("Parsed", "", v, <<>>)
TextV(s) == FV("Text", s, NoVal, <<>>)
NoneV == FV("None", "", NoVal, <<>>)
UnitV(name) == FV("Unit", name, NoVal, <<>>)
StructV(name, fields) == FV("Struct", name, NoVal, fields)
VecV(items) == FV("Vec", "", NoVal, items)

\* StringValue::from_raw_parsed
from_raw_parsed(t, s) ==
    (CHOOSE the \in {IF p.ok THEN [ok |-> TRUE, val |-> Parsed(p.v)] ELSE [ok |-> FALSE, val |-> NoneV] :
         p \in {parse_from_str(t, s)}} : TRUE)

\* StringValue::raw
raw(value) == IF value.variant = "Raw" THEN value.s ELSE to_raw_value(value.v)

(***************************************************************************)
(* The XML event stream.  The input is the sequence of events quick-xml    *)
(* yields for it; event i covers the bytes [i-1, i).  Element and          *)
(* attribute names are kept resolved (local name, namespace).              *)
(***************************************************************************)
Event(type, name, attrs, text) == [type |-> type, name |-> name, attrs |-> attrs, text |-> text]
Eof == Event("Eof", NoName, <<>>, "")
Attr(key, value) == [key |-> key, value |-> value]

\* EMLReader::next: the next event and its span; Eof is repeated at the end.  An
\* "Error" event stands for Err(xml_err) of read_event (a malformed token, or an end
\* tag quick-xml finds ill-formed); xml_error is the error EMLReader::next returns
\* for it, positioned at error_position, or at the bytes read when that is 0.
reader_next(input, pos) ==
    IF pos > Len(input)
    THEN [evt |-> Eof, span |-> Span(Len(input), Len(input)), pos |-> pos]
    ELSE [evt |-> input[pos], span |-> Span(pos - 1, pos), pos |-> pos + 1]
xml_error(n) ==
    Positioned(Kind0("XmlError"),
               IF n.span.start = 0 THEN n.span ELSE Span(n.span.start, n.span.start))

\* EMLElementReader::from_start
from_start(start, is_empty, start_span) ==
    [start |-> start, depth |-> 1, found_matching_end |-> is_empty,
     is_empty |-> is_empty, span |-> start_span, last_span |-> start_span]
NoReader == from_start(Eof, TRUE, NoSpan)

\* result of an element reader operation: out is "Some", "None" or "Err"
R(out, er, pos, evt, sp, err, child, text) ==
    [out |-> out, er |-> er, pos |-> pos, evt |-> evt, span |-> sp, err |-> err,
     child |-> child, text |-> text]

\* EMLElementReader::next, closing on any End at depth zero
elem_next_without_name_check(input, er, pos) ==
    IF er.found_matching_end
    THEN R("None", er, pos, Eof, NoSpan, NoError, NoReader, "")
    ELSE (CHOOSE the \in {
        LET evt == n.evt
            d1 == IF evt.type = "Start" THEN er.depth + 1 ELSE er.depth
            d2 == IF evt.type = "End" THEN d1 - 1 ELSE d1
            er1 == [er EXCEPT !.last_span = n.span, !.depth = d2]
        IN  IF evt.type = "Error"
            THEN R("Err", er, n.pos, evt, n.span, xml_error(n), NoReader, "")
            ELSE IF evt.type = "Eof"
            THEN R("Err", er1, n.pos, evt, n.span,
                   Positioned(Kind0("UnexpectedEof"), n.span), NoReader, "")
            ELSE IF d2 = 0 /\ evt.type = "End"
            THEN IF TRUE
                 THEN R("None", [er1 EXCEPT !.found_matching_end = TRUE], n.pos, evt,
                        n.span, NoError, NoReader, "")
                 ELSE R("Err", er1, n.pos, evt, n.span,
                        Positioned(Kind0("UnexpectedEndElement"), n.span), NoReader, "")
            ELSE R("Some", er1, n.pos, evt, n.span, NoError, NoReader, "") :
        n \in {reader_next(input, pos)}} : TRUE)
\* EMLElementReader::next
elem_next(input, er, pos) ==
    IF er.found_matching_end
    THEN R("None", er, pos, Eof, NoSpan, NoError, NoReader, "")
    ELSE (CHOOSE the \in {
        LET evt == n.evt
            d1 == IF evt.type = "Start" THEN er.depth + 1 ELSE er.depth
            d2 == IF evt.type = "End" THEN d1 - 1 ELSE d1
            er1 == [er EXCEPT !.last_span = n.span, !.depth = d2]
        IN  IF evt.type = "Error"
            THEN R("Err", er, n.pos, evt, n.span, xml_error(n), NoReader, "")
            ELSE IF evt.type = "Eof"
            THEN R("Err", er1, n.pos, evt, n.span,
                   Positioned(Kind0("UnexpectedEof"), n.span), NoReader, "")
            ELSE IF d2 = 0 /\ evt.type = "End"
            THEN IF evt.name = er.start.name
                 THEN R("None", [er1 EXCEPT !.found_matching_end = TRUE], n.pos, evt,
                        n.span, NoError, NoReader, "")
                 ELSE R("Err", er1, n.pos, evt, n.span,
                        Positioned(Kind0("UnexpectedEndElement"), n.span), NoReader, "")
            ELSE R("Some", er1, n.pos, evt, n.span, NoError, NoReader, "") :
        n \in {reader_next(input, pos)}} : TRUE)

\* EMLElementReader::next_child
RECURSIVE next_child(_, _, _)
next_child(input, er, pos) ==
    (CHOOSE the \in {IF r.out # "Some" THEN r
         ELSE IF r.evt.type = "Start"
         THEN [r EXCEPT !.er = [r.er EXCEPT !.depth = @ - 1],
                        !.child = from_start(r.evt, FALSE, r.span)]
         ELSE IF r.evt.type = "Empty"
         THEN [r EXCEPT !.child = from_start(r.evt, TRUE, r.span)]
         ELSE next_child(input, r.er, r.pos) :
         r \in {elem_next(input, er, pos)}} : TRUE)

\* the reader after next() returned Some for each of the events pos..(p - 1)
after_events(input, er, pos, p) ==
    IF p = pos THEN er
    ELSE [er EXCEPT !.last_span = Span(p - 2, p - 1),
                    !.depth = @ + Cardinality({i \in pos..(p - 1) : input[i].type = "Start"})
                                - Cardinality({i \in pos..(p - 1) : input[i].type = "End"})]
Min(S) == CHOOSE j \in S : \A k \in S : j <= k
\* a skip that stops at the first end tag, whatever element it closes
skip_to_next_end(input, er, pos) ==
    IF er.found_matching_end THEN elem_next(input, er, pos)
    ELSE (CHOOSE the \in {elem_next(input, [after_events(input, er, pos, stop)
                                              EXCEPT !.depth = 1], stop) :
              stop \in {Min({p \in pos..(Len(input) + 1) :
                               p > Len(input) \/ input[p].type \in {"End", "Error"}})}} : TRUE)
\* EMLElementReader::skip, `while let Some(_) = self.next()? {}`: the result of next()
\* at the first position where it does not return Some
skip(input, er, pos) ==
    IF er.found_matching_end THEN elem_next(input, er, pos)
    ELSE (CHOOSE the \in {elem_next(input, after_events(input, er, pos, stop), stop) :
              stop \in {Min({p \in pos..(Len(input) + 1) :
                               elem_next(input, after_events(input, er, pos, p), p).out
                                   # "Some"})}} : TRUE)

\* Drop for EMLElementReader: skip, the result is discarded
drop_without_skip(input, er, pos) == pos
drop(input, er, pos) == skip(input, er, pos).pos

\* quick_xml::escape::unescape on "&name;": the predefined entities (the samples of
\* the model) resolve, any other name is an EscapeError
Entities == ("amp" :> "&") @@ ("lt" :> "<")

\* EMLElementReader::text_without_children, a comment taken for an unexpected event
RECURSIVE text_loop_rejects_comments(_, _, _, _)
text_loop_rejects_comments(input, er, pos, text) ==
    (CHOOSE the \in {IF r.out = "Err" THEN r
         ELSE IF r.out = "None" THEN [r EXCEPT !.text = text]
         ELSE IF r.evt.type \in {"Text", "CData"}
         THEN text_loop_rejects_comments(input, r.er, r.pos, text \o r.evt.text)
         ELSE IF r.evt.type = "GeneralRef"
         THEN IF r.evt.text \in DOMAIN Entities
              THEN text_loop_rejects_comments(input, r.er, r.pos, text \o Entities[r.evt.text])
              ELSE [r EXCEPT !.out = "Err", !.err = Positioned(Kind0("EscapeError"), r.span)]
         ELSE [r EXCEPT !.out = "Err", !.err = Positioned(Kind0("UnexpectedEvent"), r.span)] :
         r \in {elem_next(input, er, pos)}} : TRUE)
\* EMLElementReader::text_without_children
RECURSIVE text_loop(_, _, _, _)
text_loop(input, er, pos, text) ==
    (CHOOSE the \in {IF r.out = "Err" THEN r
         ELSE IF r.out = "None" THEN [r EXCEPT !.text = text]
         ELSE IF r.evt.type \in {"Text", "CData"}
         THEN text_loop(input, r.er, r.pos, text \o r.evt.text)
         ELSE IF r.evt.type = "GeneralRef"
         THEN IF r.evt.text \in DOMAIN Entities
              THEN text_loop(input, r.er, r.pos, text \o Entities[r.evt.text])
              ELSE [r EXCEPT !.out = "Err", !.err = Positioned(Kind0("EscapeError"), r.span)]
         ELSE IF r.evt.type = "Comment"
         THEN text_loop(input, r.er, r.pos, text)
         ELSE [r EXCEPT !.out = "Err", !.err = Positioned(Kind0("UnexpectedEvent"), r.span)] :
         r \in {elem_next(input, er, pos)}} : TRUE)
text_without_children(input, er, pos) == text_loop(input, er, pos, "")

\* EMLElementReader::text_without_children_opt: out "None" with text "" when absent
text_without_children_opt(input, er, pos) ==
    IF er.is_empty
    THEN R("None", er, pos, Eof, NoSpan, NoError, NoReader, "")
    ELSE text_without_children(input, er, pos)

\* EMLElementReader::full_span and inner_span
full_span(er) == Span(er.span.start, er.last_span.end)
inner_span(er) == Span(er.span.end, er.last_span.start)

\* EMLElementReader::namespace_name: the error for a name the resolver reported as
\* ResolveResult::Unknown(prefix), NoError for a Bound or Unbound one
namespace_name_unknown_as_unbound(resolved, sp) == NoError
namespace_name(resolved, sp) ==
    IF is_unknown(resolved)
    THEN Positioned(Kind1("UnknownNamespace", QNone(resolved.namespace[1])), sp)
    ELSE NoError
\* EMLElementReader::get_resolved_name as name() and has_name() call it: the error of
\* resolving the name of the start tag, positioned at the start tag
get_resolved_name(er) == namespace_name(er.start.name, er.span)

\* EMLElementReader::attribute_value: the value of the first attribute with that name;
\* the name of every attribute up to that one is resolved, with the span of the
\* start tag
RECURSIVE attribute_from(_, _, _, _)
attribute_from(attrs, i, attr_name, sp) ==
    IF i > Len(attrs) THEN [some |-> FALSE, value |-> "", err |-> NoError]
    ELSE IF namespace_name(attrs[i].key, sp) # NoError
    THEN [some |-> FALSE, value |-> "", err |-> namespace_name(attrs[i].key, sp)]
    ELSE IF IsResolvedName(attrs[i].key, attr_name)
    THEN [some |-> TRUE, value |-> attrs[i].value, err |-> NoError]
    ELSE attribute_from(attrs, i + 1, attr_name, sp)
attribute_value(er, attr_name) == attribute_from(er.start.attrs, 1, attr_name, er.span)
\* EMLElementReader::attribute_value_req on None or Err: the error of attribute_value,
\* else MissingAttribute at the start tag
attribute_value_req(a, attr_name, er) ==
    IF a.err # NoError THEN a.err
    ELSE Positioned(Kind1("MissingAttribute", attr_name), er.span)

(***************************************************************************)
(* Typed value construction by the reader.                                 *)
(***************************************************************************)
\* result of string_value_from_text: the value or the error, and the accumulator
SV(ok, val, err, errors) == [ok |-> ok, val |-> val, err |-> err, errors |-> errors]

\* EMLElementReader::string_value_from_text (with map_value_error and push_err)
string_value_from_text_fallback_fails(t, text, name, sp, mode, errors) ==
    IF mode = "Loose" THEN SV(TRUE, Raw(text), NoError, errors)
    ELSE (CHOOSE the \in {IF p.ok THEN SV(TRUE, p.val, NoError, errors)
              ELSE SV(FALSE, NoneV, invalid_value(name, sp), errors) :
              p \in {from_raw_parsed(t, text)}} : TRUE)
string_value_from_text_never_records(t, text, name, sp, mode, errors) ==
    IF mode = "Loose" THEN SV(TRUE, Raw(text), NoError, errors)
    ELSE (CHOOSE the \in {IF p.ok THEN SV(TRUE, p.val, NoError, errors)
              ELSE IF mode = "Strict" THEN SV(FALSE, NoneV, invalid_value(name, sp), errors)
              ELSE SV(TRUE, Raw(text), NoError, errors) :
              p \in {from_raw_parsed(t, text)}} : TRUE)
string_value_from_text(t, text, name, sp, mode, errors) ==
    CASE mode = "Strict" ->
            (CHOOSE the \in {IF p.ok THEN SV(TRUE, p.val, NoError, errors)
                 ELSE SV(FALSE, NoneV, invalid_value(name, sp), errors) :
                 p \in {from_raw_parsed(t, text)}} : TRUE)
      [] mode = "StrictFallback" ->
            (CHOOSE the \in {IF p.ok THEN SV(TRUE, p.val, NoError, errors)
                 ELSE SV(TRUE, Raw(text), NoError, Append(errors, invalid_value(name, sp))) :
                 p \in {from_raw_parsed(t, text)}} : TRUE)
      [] OTHER -> SV(TRUE, Raw(text), NoError, errors)

(***************************************************************************)
(* Schema bindings: the slot lists handed to collect_struct!.  A slot is   *)
(* "field" (required single), "optional" or "direct"; dec names the        *)
(* closure that decodes a matching child (or computes a direct slot) and   *)
(* t its parameter (field type, nested binding or attribute type).         *)
(***************************************************************************)
Slot(field, slot_kind, name, dec, t) ==
    [field |-> field, kind |-> slot_kind, name |-> name, dec |-> dec, t |-> t]

Bindings ==
    {"CandidateList", "PollingStationsElectionIdentifier", "ElectionDefinitionElection",
     "ElectionDefinitionElectionIdentifier", "ElectionDefinitionContest",
     "ElectionDefinitionRegisteredParty", "ElectionDefinition", "CanonicalizationMethod",
     "ElectionDefinitionElectionEvent"}

Slots(b) ==
    CASE b = "CandidateList" -> <<
            Slot("transaction_id", "field", QN("TransactionId", NS_EML), "string_value", "u64") >>
      [] b = "PollingStationsElectionIdentifier" -> <<
            Slot("id", "direct", QNone("Id"), "string_value_attr", "ElectionIdType"),
            Slot("name", "optional", QN("ElectionName", NS_EML), "text", ""),
            Slot("category", "field", QN("ElectionCategory", NS_EML), "string_value", "ElectionCategory"),
            Slot("subcategory", "optional", QN("ElectionSubcategory", NS_KR), "string_value", "ElectionSubcategory"),
            Slot("domain", "optional", QN("ElectionDomain", NS_KR), "ElectionDomain", ""),
            Slot("election_date", "optional", QN("ElectionDate", NS_KR), "string_value", "XsDate"),
            Slot("election_date_eml", "optional", QN("ElectionDate", NS_EML), "election_date_eml", "XsDate") >>
      [] b = "ElectionDefinitionElection" -> <<
            Slot("identifier", "field", QN("ElectionIdentifier", NS_EML), "read_eml", "ElectionDefinitionElectionIdentifier"),
            Slot("contest", "field", QN("Contest", NS_EML), "read_eml", "ElectionDefinitionContest"),
            Slot("number_of_seats", "field", QN("NumberOfSeats", NS_KR), "string_value", "u64"),
            Slot("preference_threshold", "field", QN("PreferenceThreshold", NS_KR), "string_value", "u64"),
            Slot("election_tree", "field", QN("ElectionTree", NS_KR), "skip", "ElectionTree"),
            Slot("registered_parties", "field", QN("RegisteredParties", NS_KR), "read_list", "") >>
      [] b = "ElectionDefinitionElectionIdentifier" -> <<
            Slot("id", "direct", QNone("Id"), "string_value_attr", "ElectionIdType"),
            Slot("name", "field", QN("ElectionName", NS_EML), "text", ""),
            Slot("category", "field", QN("ElectionCategory", NS_EML), "string_value", "ElectionCategory"),
            Slot("subcategory", "field", QN("ElectionSubcategory", NS_KR), "string_value", "ElectionSubcategory"),
            Slot("domain", "optional", QN("ElectionDomain", NS_KR), "ElectionDomain", ""),
            Slot("election_date", "field", QN("ElectionDate", NS_KR), "string_value", "XsDate"),
            Slot("nomination_date", "field", QN("NominationDate", NS_KR), "string_value", "XsDate") >>
      [] b = "ElectionDefinitionContest" -> <<
            Slot("identifier", "field", QN("ContestIdentifier", NS_EML), "ContestIdentifier", "ContestIdType"),
            Slot("voting_method", "field", QN("VotingMethod", NS_EML), "string_value", "VotingMethod"),
            Slot("max_votes", "field", QN("MaxVotes", NS_EML), "max_votes", "NonZeroU64") >>
      [] b = "ElectionDefinitionRegisteredParty" -> <<
            Slot("registered_appellation", "field", QN("RegisteredAppellation", NS_KR), "text", "") >>
      [] b = "ElectionDefinition" -> <<
            Slot("transaction_id", "field", QN("TransactionId", NS_EML), "string_value", "u64"),
            Slot("canonicalization_method", "optional", QN("CanonicalizationMethod", NS_DS), "read_eml", "CanonicalizationMethod"),
            Slot("creation_date_time", "field", QN("CreationDateTime", NS_KR), "string_value", "XsDateTime"),
            Slot("issue_date", "optional", QN("IssueDate", NS_EML), "string_value", "XsDateOrDateTime"),
            Slot("managing_authority", "optional", QN("ManagingAuthority", NS_EML), "read_eml", "ManagingAuthority"),
            Slot("election_event", "field", QN("ElectionEvent", NS_EML), "read_eml", "ElectionDefinitionElectionEvent") >>
      [] b = "CanonicalizationMethod" -> <<
            Slot("algorithm", "direct", QNone("Algorithm"), "attribute_value_req", "") >>
      [] b = "ElectionDefinitionElectionEvent" -> <<
            Slot("id", "field", QN("EventIdentifier", NS_EML), "EventIdentifier", ""),
            Slot("election", "field", QN("Election", NS_EML), "read_eml", "ElectionDefinitionElection") >>

RegisteredPartyName == QN("RegisteredParty", NS_KR)
EML_ELECTION_DEFINITION_ID == "110a"

(***************************************************************************)
(* The read routines.  D is the outcome of a read on an element reader:    *)
(* the value or the error, the reader and cursor afterwards and the        *)
(* accumulated non-fatal errors (EMLReader::errors).                       *)
(***************************************************************************)
D(ok, val, err, er, pos, errors) ==
    [ok |-> ok, val |-> val, err |-> err, er |-> er, pos |-> pos, errors |-> errors]
DOk(val, er, pos, errors) == D(TRUE, val, NoError, er, pos, errors)
DErr(err, er, pos, errors) == D(FALSE, NoneV, err, er, pos, errors)

\* the `?` on a typed value: the read goes on with the value or fails with the error
value_or_fail(v, er, pos) ==
    IF v.ok THEN DOk(v.val, er, pos, v.errors) ELSE DErr(v.err, er, pos, v.errors)

\* EMLElementReader::string_value
string_value(t, input, mode, er, pos, errors) ==
    (CHOOSE the \in {IF r.out = "Err" THEN DErr(r.err, r.er, r.pos, errors)
         ELSE value_or_fail(string_value_from_text(t, r.text, er.start.name,
                                                   inner_span(r.er), mode, errors),
                            r.er, r.pos) :
         r \in {text_without_children(input, er, pos)}} : TRUE)

\* EMLElementReader::string_value_attr with no default value
string_value_attr(t, attr_name, mode, er, pos, errors) ==
    (CHOOSE the \in {IF ~a.some
         THEN DErr(attribute_value_req(a, attr_name, er), er, pos, errors)
         ELSE value_or_fail(string_value_from_text(t, a.value, attr_name, er.span, mode,
                                                   errors),
                            er, pos) :
         a \in {attribute_value(er, attr_name)}} : TRUE)

\* the max_votes closure of ElectionDefinitionContest::read_eml
max_votes(t, input, mode, er, pos, errors) ==
    (CHOOSE the \in {IF r.out = "Err" THEN DErr(r.err, r.er, r.pos, errors)
         ELSE value_or_fail(string_value_from_text(t, IF r.text = "" THEN "1" ELSE r.text,
                                                   er.start.name, full_span(r.er), mode,
                                                   errors),
                            r.er, r.pos) :
         r \in {text_without_children_opt(input, er, pos)}} : TRUE)

\* ContestIdentifier::read_eml
ContestIdentifier_read_eml(t, mode, er, pos, errors) ==
    (CHOOSE the \in {IF id.ok THEN [id EXCEPT !.val = StructV("ContestIdentifier", <<id.val>>)] ELSE id :
         id \in {string_value_attr(t, QNone("Id"), mode, er, pos, errors)}} : TRUE)

\* ElectionDomain::read_eml
ElectionDomain_read_eml(input, mode, er, pos, errors) ==
    (CHOOSE the \in {IF ~id.ok THEN id
         ELSE (CHOOSE the \in {IF r.out = "Err" THEN DErr(r.err, r.er, r.pos, id.errors)
                   ELSE DOk(StructV("ElectionDomain", <<id.val, TextV(r.text)>>), r.er,
                            r.pos, id.errors) :
                   r \in {text_without_children(input, er, pos)}} : TRUE) :
         id \in {string_value_attr("ElectionDomainIdType", QNone("Id"), mode, er, pos,
                                   errors)}} : TRUE)

\* ElectionTree::read_eml
ElectionTree_read_eml(input, er, pos, errors) ==
    (CHOOSE the \in {IF r.out = "Err" THEN DErr(r.err, r.er, r.pos, errors)
         ELSE DOk(UnitV("ElectionTree"), r.er, r.pos, errors) :
         r \in {skip(input, er, pos)}} : TRUE)

\* ElectionDefinitionElectionEventIdentifier::read_eml
EventIdentifier_read_eml(input, er, pos, errors) ==
    (CHOOSE the \in {IF r.out = "Err" THEN DErr(r.err, r.er, r.pos, errors)
         ELSE DOk(UnitV("EventIdentifier"), r.er, r.pos, errors) :
         r \in {skip(input, er, pos)}} : TRUE)

\* the election_date_eml closure of PollingStationsElectionIdentifier::read_eml
election_date_eml(t, input, mode, er, pos, errors) ==
    IF is_strict(mode)
    THEN DErr(Positioned(Kind0("InvalidElectionDateNamespace"), er.span), er, pos, errors)
    ELSE string_value(t, input, mode, er, pos,
                      Append(errors, Positioned(Kind0("InvalidElectionDateNamespace"),
                                                er.span)))

\* String-valued closure: elem.text_without_children()?
text_value(input, er, pos, errors) ==
    (CHOOSE the \in {IF r.out = "Err" THEN DErr(r.err, r.er, r.pos, errors)
         ELSE DOk(TextV(r.text), r.er, r.pos, errors) :
         r \in {text_without_children(input, er, pos)}} : TRUE)

(***************************************************************************)
(* collect_struct! (src/src/io/reader.rs) and the read_eml routines.       *)
(***************************************************************************)
RECURSIVE read_eml(_, _, _, _, _, _)
RECURSIVE read_list(_, _, _, _, _, _)
RECURSIVE collect_loop(_, _, _, _, _, _, _)

\* an empty slot (let mut $field: Option<_> = None) and a filled one
EmptySlot == [some |-> FALSE, val |-> NoneV]
FilledSlot(val) == [some |-> TRUE, val |-> val]

\* the $map closure of a child slot, run on the child reader
decode(slot, input, mode, er, pos, errors) ==
    CASE slot.dec = "string_value" -> string_value(slot.t, input, mode, er, pos, errors)
      [] slot.dec = "text" -> text_value(input, er, pos, errors)
      [] slot.dec = "max_votes" -> max_votes(slot.t, input, mode, er, pos, errors)
      [] slot.dec = "ContestIdentifier" -> ContestIdentifier_read_eml(slot.t, mode, er, pos, errors)
      [] slot.dec = "ElectionDomain" -> ElectionDomain_read_eml(input, mode, er, pos, errors)
      [] slot.dec = "skip" -> ElectionTree_read_eml(input, er, pos, errors)
      [] slot.dec = "EventIdentifier" -> EventIdentifier_read_eml(input, er, pos, errors)
      [] slot.dec = "election_date_eml" -> election_date_eml(slot.t, input, mode, er, pos, errors)
      [] slot.dec = "read_list" -> read_list(input, mode, er, pos, errors, <<>>)
      [] OTHER -> read_eml(slot.t, input, mode, er, pos, errors)

\* outcome of the @matcher chain for one child
M(ok, handled, err, er, pos, errors, vals) ==
    [ok |-> ok, handled |-> handled, err |-> err, er |-> er, pos |-> pos,
     errors |-> errors, vals |-> vals]

\* a slot that keeps the value of the first matching child
fill_keeps_first(i, input, vals, d) ==
    IF ~d.ok THEN M(FALSE, FALSE, d.err, d.er, d.pos, d.errors, vals)
    ELSE (CHOOSE the \in {IF s.out = "Err" THEN M(FALSE, FALSE, s.err, s.er, s.pos, d.errors, vals)
              ELSE M(TRUE, TRUE, NoError, s.er, s.pos, d.errors,
                     IF vals[i].some THEN vals ELSE [vals EXCEPT ![i] = FilledSlot(d.val)]) :
              s \in {skip(input, d.er, d.pos)}} : TRUE)
\* collect_struct! @matcher, the body of a matching slot: $field = Some($map);
\* $var.skip()?; $handled = true
fill(i, input, vals, d) ==
    IF ~d.ok THEN M(FALSE, FALSE, d.err, d.er, d.pos, d.errors, vals)
    ELSE (CHOOSE the \in {IF s.out = "Err" THEN M(FALSE, FALSE, s.err, s.er, s.pos, d.errors, vals)
              ELSE M(TRUE, TRUE, NoError, s.er, s.pos, d.errors,
                     [vals EXCEPT ![i] = FilledSlot(d.val)]) :
              s \in {skip(input, d.er, d.pos)}} : TRUE)

\* collect_struct! @matcher: the slots are tried in declaration order
RECURSIVE matcher_without_handled(_, _, _, _, _, _, _, _, _)
matcher_without_handled(slots, i, handled, input, mode, child, pos, errors, vals) ==
    IF i > Len(slots) THEN M(TRUE, handled, NoError, child, pos, errors, vals)
    ELSE IF slots[i].kind # "direct" /\ QNameEq(child.start.name, slots[i].name)
    THEN (CHOOSE the \in {IF ~f.ok THEN f
              ELSE matcher_without_handled(slots, i + 1, TRUE, input, mode, f.er, f.pos,
                                           f.errors, f.vals) :
              f \in {fill(i, input, vals, decode(slots[i], input, mode, child, pos, errors))}} : TRUE)
    ELSE matcher_without_handled(slots, i + 1, handled, input, mode, child, pos, errors, vals)
\* the first slot from i on whose element name the child has, Len(slots) + 1 if none
matching_slot(slots, i, child) ==
    Min({j \in i..Len(slots) :
            slots[j].kind # "direct" /\ QNameEq(child.start.name, slots[j].name)}
        \cup {Len(slots) + 1})
\* the slots are tried in declaration order under `if !handled`, so that the first
\* slot with the name of the child decodes it and no later one does
matcher(slots, i, handled, input, mode, child, pos, errors, vals) ==
    (CHOOSE the \in {
        IF handled \/ j > Len(slots) THEN M(TRUE, handled, NoError, child, pos, errors, vals)
        ELSE (CHOOSE the \in {
                IF ~f.ok THEN f
                ELSE M(TRUE, TRUE, NoError, f.er, f.pos, f.errors, f.vals) :
                f \in {fill(j, input, vals,
                            decode(slots[j], input, mode, child, pos, errors))}} : TRUE) :
        j \in {matching_slot(slots, i, child)}} : TRUE)

\* collect_struct! @emit, `if !handled`: the unknown-element policy
unknown_child(input, mode, elem_name, child, pos, errors) ==
    (CHOOSE the \in {M(s.out # "Err", FALSE, s.err, s.er, s.pos,
           Append(errors, Positioned(Kind("UnexpectedElement", child.start.name, elem_name),
                                     child.span)), <<>>) :
         s \in {skip(input, child, pos)}} : TRUE)

\* a direct slot: the $value expression, evaluated on the element itself
direct(slot, mode, er, pos, errors) ==
    IF slot.dec = "attribute_value_req"
    THEN (CHOOSE the \in {IF a.some THEN DOk(TextV(a.value), er, pos, errors)
              ELSE DErr(attribute_value_req(a, slot.name, er), er, pos, errors) :
              a \in {attribute_value(er, slot.name)}} : TRUE)
    ELSE string_value_attr(slot.t, slot.name, mode, er, pos, errors)

\* collect_struct! @assign, a required slot left empty: MissingElement with the
\* slot's name at $root.last_span()
missing_element_at_start(slot, er) == Positioned(Kind1("MissingElement", slot.name), er.span)
missing_element(slot, er) == Positioned(Kind1("MissingElement", slot.name), er.last_span)

\* collect_struct! @assign: the struct literal, fields in declaration order
RECURSIVE assign(_, _, _, _, _, _, _, _)
assign(b, i, mode, er, pos, errors, vals, out) ==
    IF i > Len(Slots(b)) THEN DOk(StructV(b, out), er, pos, errors)
    ELSE IF Slots(b)[i].kind = "direct"
    THEN (CHOOSE the \in {IF ~d.ok THEN d
              ELSE assign(b, i + 1, mode, er, pos, d.errors, vals, Append(out, d.val)) :
              d \in {direct(Slots(b)[i], mode, er, pos, errors)}} : TRUE)
    ELSE IF Slots(b)[i].kind = "field" /\ ~vals[i].some
    THEN DErr(missing_element(Slots(b)[i], er), er, pos, errors)
    ELSE assign(b, i + 1, mode, er, pos, errors, vals, Append(out, vals[i].val))

\* collect_struct! @emit: the loop over the children of $root
child_done(input, r, m) == [m EXCEPT !.er = r.er, !.pos = drop(input, m.er, m.pos)]
\* one turn of the loop: ok and handled when a child was consumed and the loop goes on
collect_child(b, input, mode, er, pos, errors, vals) ==
    (CHOOSE the \in {IF r.out = "Err" THEN M(FALSE, FALSE, r.err, r.er, r.pos, errors, vals)
         ELSE IF r.out = "None" THEN M(TRUE, FALSE, NoError, r.er, r.pos, errors, vals)
         ELSE IF get_resolved_name(r.child) # NoError
         THEN M(FALSE, FALSE, get_resolved_name(r.child), r.er, drop(input, r.child, r.pos),
                errors, vals)
         ELSE (CHOOSE the \in {IF ~m.ok THEN [child_done(input, r, m) EXCEPT !.handled = FALSE]
                   ELSE IF m.handled THEN child_done(input, r, m)
                   ELSE (CHOOSE the \in {[u EXCEPT !.handled = u.ok, !.vals = m.vals] :
                             u \in {child_done(input, r,
                                               unknown_child(input, mode, er.start.name,
                                                             m.er, m.pos, m.errors))}} : TRUE) :
                   m \in {matcher(Slots(b), 1, FALSE, input, mode, r.child, r.pos, errors,
                                  vals)}} : TRUE) :
         r \in {next_child(input, er, pos)}} : TRUE)
collect_loop(b, input, mode, er, pos, errors, vals) ==
    (CHOOSE the \in {IF c.ok /\ c.handled
         THEN collect_loop(b, input, mode, c.er, c.pos, c.errors, c.vals)
         ELSE c :
         c \in {collect_child(b, input, mode, er, pos, errors, vals)}} : TRUE)

\* collect_struct! @emit: the declarations, the loop, then the assignment
collect_struct(b, input, mode, er, pos, errors) ==
    IF get_resolved_name(er) # NoError THEN DErr(get_resolved_name(er), er, pos, errors)
    ELSE (CHOOSE the \in {IF ~c.ok THEN DErr(c.err, c.er, c.pos, c.errors)
         ELSE assign(b, 1, mode, c.er, c.pos, c.errors, c.vals, <<>>) :
         c \in {collect_loop(b, input, mode, er, pos, errors,
                             [j \in 1..Len(Slots(b)) |-> EmptySlot])}} : TRUE)

\* ElectionDefinitionRegisteredParty::read_list
read_list(input, mode, er, pos, errors, parties) ==
    (CHOOSE the \in {IF r.out = "Err" THEN DErr(r.err, r.er, r.pos, errors)
         ELSE IF r.out = "None" THEN DOk(VecV(parties), r.er, r.pos, errors)
         ELSE IF get_resolved_name(r.child) # NoError
         THEN DErr(get_resolved_name(r.child), r.er, drop(input, r.child, r.pos), errors)
         ELSE IF IsResolvedName(r.child.start.name, RegisteredPartyName)
         THEN (CHOOSE the \in {IF ~d.ok THEN DErr(d.err, r.er, drop(input, d.er, d.pos), d.errors)
                   ELSE read_list(input, mode, r.er, drop(input, d.er, d.pos), d.errors,
                                  Append(parties, d.val)) :
                   d \in {read_eml("ElectionDefinitionRegisteredParty", input, mode, r.child,
                                   r.pos, errors)}} : TRUE)
         ELSE DErr(Positioned(Kind("UnexpectedElement", r.child.start.name, er.start.name),
                              r.child.span),
                   r.er, drop(input, r.child, r.pos), errors) :
         r \in {next_child(input, er, pos)}} : TRUE)

\* accepted_root without the comparison of the schema version
accepted_root_any_version(er) ==
    (CHOOSE the \in {IF get_resolved_name(er) # NoError THEN get_resolved_name(er)
         ELSE IF ~IsResolvedName(er.start.name, QN("EML", NS_EML))
         THEN Positioned(Kind0("InvalidRootElement"), er.span)
         ELSE IF ~v.some
         THEN attribute_value_req(v, QNone("SchemaVersion"), er)
         ELSE NoError :
         v \in {attribute_value(er, QNone("SchemaVersion"))}} : TRUE)
\* accepted_root (src/src/documents/mod.rs)
accepted_root(er) ==
    (CHOOSE the \in {IF get_resolved_name(er) # NoError THEN get_resolved_name(er)
         ELSE IF ~IsResolvedName(er.start.name, QN("EML", NS_EML))
         THEN Positioned(Kind0("InvalidRootElement"), er.span)
         ELSE IF ~v.some
         THEN attribute_value_req(v, QNone("SchemaVersion"), er)
         ELSE IF v.value # EML_SCHEMA_VERSION
         THEN Positioned(Kind1("SchemaVersionNotSupported", QNone(v.value)), er.span)
         ELSE NoError :
         v \in {attribute_value(er, QNone("SchemaVersion"))}} : TRUE)

\* the document type check with the identifier of another document type
document_id_of_110a(er) ==
    (CHOOSE the \in {IF ~id.some THEN attribute_value_req(id, QNone("Id"), er)
         ELSE IF id.value # "110a"
         THEN Positioned(Kind("InvalidDocumentType", QNone("110a"), QNone(id.value)), er.span)
         ELSE NoError :
         id \in {attribute_value(er, QNone("Id"))}} : TRUE)
\* the document type check of CandidateList::read_eml_element
document_id(er) ==
    (CHOOSE the \in {IF ~id.some THEN attribute_value_req(id, QNone("Id"), er)
         ELSE IF id.value # EML_CANDIDATE_LIST_ID
         THEN Positioned(Kind("InvalidDocumentType", QNone(EML_CANDIDATE_LIST_ID),
                              QNone(id.value)), er.span)
         ELSE NoError :
         id \in {attribute_value(er, QNone("Id"))}} : TRUE)

\* CandidateList::read_eml_element
CandidateList_read_eml(input, mode, er, pos, errors) ==
    (CHOOSE the \in {IF root # NoError THEN DErr(root, er, pos, errors)
         ELSE (CHOOSE the \in {IF id # NoError THEN DErr(id, er, pos, errors)
                   ELSE collect_struct("CandidateList", input, mode, er, pos, errors) :
                   id \in {document_id(er)}} : TRUE) :
         root \in {accepted_root(er)}} : TRUE)

\* the document type check of ElectionDefinition::read_eml
election_definition_id(er) ==
    (CHOOSE the \in {IF ~id.some THEN attribute_value_req(id, QNone("Id"), er)
         ELSE IF id.value # EML_ELECTION_DEFINITION_ID
         THEN Positioned(Kind("InvalidDocumentType", QNone(EML_ELECTION_DEFINITION_ID),
                              QNone(id.value)), er.span)
         ELSE NoError :
         id \in {attribute_value(er, QNone("Id"))}} : TRUE)

\* ElectionDefinition::read_eml; the documents of the model have no ManagingAuthority,
\* whose own fields are not part of the model
ElectionDefinition_read_eml(input, mode, er, pos, errors) ==
    (CHOOSE the \in {IF root # NoError THEN DErr(root, er, pos, errors)
         ELSE (CHOOSE the \in {IF id # NoError THEN DErr(id, er, pos, errors)
                   ELSE collect_struct("ElectionDefinition", input, mode, er, pos, errors) :
                   id \in {election_definition_id(er)}} : TRUE) :
         root \in {accepted_root(er)}} : TRUE)

\* the election date of PollingStationsElectionIdentifier::read_eml: the kr one, else
\* the eml one, else MissingElement
election_date(data) ==
    LET f == data.val.sub
    IN  IF ~data.ok THEN data
        ELSE IF f[6] = NoneV /\ f[7] = NoneV
        THEN DErr(Positioned(Kind1("MissingElement", QN("ElectionDate", NS_KR)),
                             full_span(data.er)), data.er, data.pos, data.errors)
        ELSE [data EXCEPT !.val = StructV("PollingStationsElectionIdentifier",
                                          <<f[1], f[2], f[3], f[4], f[5],
                                            IF f[6] # NoneV THEN f[6] ELSE f[7]>>)]

\* PollingStationsElectionIdentifier::read_eml
PollingStationsElectionIdentifier_read_eml(input, mode, er, pos, errors) ==
    election_date(collect_struct("PollingStationsElectionIdentifier", input, mode, er, pos,
                                 errors))

\* EMLElement::read_eml of the modelled bindings
read_eml(b, input, mode, er, pos, errors) ==
    CASE b = "CandidateList" -> CandidateList_read_eml(input, mode, er, pos, errors)
      [] b = "ElectionDefinition" -> ElectionDefinition_read_eml(input, mode, er, pos, errors)
      [] b = "PollingStationsElectionIdentifier" ->
            PollingStationsElectionIdentifier_read_eml(input, mode, er, pos, errors)
      [] OTHER -> collect_struct(b, input, mode, er, pos, errors)

(***************************************************************************)
(* The read entry point.                                                   *)
(***************************************************************************)
\* EMLReader::next_element: events before the first start tag are ignored; at the
\* end of the input quick-xml keeps returning Eof, which is ignored as well
RECURSIVE next_element(_, _)
next_element(input, pos) ==
    (CHOOSE the \in {IF n.evt.type = "Start"
         THEN R("Some", NoReader, n.pos, n.evt, n.span, NoError,
                from_start(n.evt, FALSE, n.span), "")
         ELSE IF n.evt.type = "Empty"
         THEN R("Some", NoReader, n.pos, n.evt, n.span, NoError,
                from_start(n.evt, TRUE, n.span), "")
         ELSE IF n.evt.type = "Error"
         THEN R("Err", NoReader, n.pos, n.evt, n.span, xml_error(n), NoReader, "")
         ELSE IF n.evt.type = "Eof"
         THEN R("Loop", NoReader, n.pos, n.evt, n.span, NoError, NoReader, "")
         ELSE next_element(input, n.pos) :
         n \in {reader_next(input, pos)}} : TRUE)

\* EMLReadResult and what the reader held when parse_eml returned: the cause is the
\* error of the top-level read, recorded is EMLReader::errors
Result(outcome, value, errors, err, cause, recorded, pos) ==
    [outcome |-> outcome, value |-> value, errors |-> errors, err |-> err,
     cause |-> cause, recorded |-> recorded, pos |-> pos]
Pending == Result("Pending", NoneV, <<>>, NoError, NoError, <<>>, 0)

\* EMLReader::with_next_element: the closure runs on the root element, which is
\* dropped afterwards
with_next_element(b, input, mode) ==
    (CHOOSE the \in {IF root.out = "Loop" THEN [DErr(NoError, NoReader, root.pos, <<>>) EXCEPT !.ok = TRUE]
         ELSE IF root.out = "Err" THEN DErr(root.err, NoReader, root.pos, <<>>)
         ELSE (CHOOSE the \in {[d EXCEPT !.pos = drop(input, d.er, d.pos)] :
                   d \in {read_eml(b, input, mode, root.child, root.pos, <<>>)}} : TRUE) :
         root \in {next_element(input, 1)}} : TRUE)

\* EMLRead::parse_eml
parse_eml(b, input, mode) ==
    (CHOOSE the \in {IF d.er = NoReader /\ d.ok
         THEN Result("Diverges", NoneV, <<>>, NoError, NoError, <<>>, d.pos)
         ELSE IF d.ok THEN Result("Ok", d.val, d.errors, NoError, NoError, d.errors, d.pos)
         ELSE IF d.errors = <<>> THEN Result("Err", NoneV, <<>>, d.err, d.err, d.errors, d.pos)
         ELSE Result("Err", NoneV, <<>>, from_vec_with_additional(d.errors, d.err), d.err,
                     d.errors, d.pos) :
         d \in {with_next_element(b, input, mode)}} : TRUE)

(***************************************************************************)
(* Input documents.  A document is a tree of element and text nodes; the   *)
(* input handed to parse_eml is its event stream.                          *)
(***************************************************************************)
Node(node, name, attrs, empty, kids, text) ==
    [node |-> node, name |-> name, attrs |-> attrs, empty |-> empty, kids |-> kids,
     text |-> text]
Elem(name, attrs, kids) == Node("elem", name, attrs, FALSE, kids, "")
EmptyElem(name, attrs) == Node("elem", name, attrs, TRUE, <<>>, "")
Txt(text) == Node("text", NoName, <<>>, FALSE, <<>>, text)
CData(text) == Node("cdata", NoName, <<>>, FALSE, <<>>, text)
Ref(name) == Node("ref", NoName, <<>>, FALSE, <<>>, name)
Comment(text) == Node("comment", NoName, <<>>, FALSE, <<>>, text)
PI(text) == Node("pi", NoName, <<>>, FALSE, <<>>, text)
\* the event quick-xml yields for a node that is not an element
EventType ==
    ("text" :> "Text") @@ ("cdata" :> "CData") @@ ("ref" :> "GeneralRef")
    @@ ("comment" :> "Comment") @@ ("pi" :> "PI")
Leaf(name, text) == Elem(name, <<>>, <<Txt(text)>>)

RECURSIVE Flatten(_)
RECURSIVE FlattenAll(_, _)
FlattenAll(kids, i) ==
    IF i > Len(kids) THEN <<>> ELSE Flatten(kids[i]) \o FlattenAll(kids, i + 1)
Flatten(n) ==
    IF n.node # "elem" THEN <<Event(EventType[n.node], NoName, <<>>, n.text)>>
    ELSE IF n.empty THEN <<Event("Empty", n.name, n.attrs, "")>>
    ELSE <<Event("Start", n.name, n.attrs, "")>> \o FlattenAll(n.kids, 1)
         \o <<Event("End", n.name, <<>>, "")>>

\* number of events of a node, and the span of the start tag of child i of a root
\* element whose start tag is event 1
RECURSIVE Size(_)
RECURSIVE SizeAll(_, _)
SizeAll(kids, i) == IF i > Len(kids) THEN 0 ELSE Size(kids[i]) + SizeAll(kids, i + 1)
Size(n) == IF n.node # "elem" \/ n.empty THEN 1 ELSE 2 + SizeAll(n.kids, 1)
RECURSIVE SizeBefore(_, _)
SizeBefore(kids, i) == IF i <= 1 THEN 0 ELSE Size(kids[i - 1]) + SizeBefore(kids, i - 1)
ChildSpan(root, i) == Span(1 + SizeBefore(root.kids, i), 2 + SizeBefore(root.kids, i))
EndSpan(root) == IF root.empty THEN Span(0, 1) ELSE Span(Size(root) - 1, Size(root))

MaxChildren == 3

SeqsUpTo(S, n) == UNION {[1..k -> S] : k \in 0..n}
InsertAt(q, i, x) == SubSeq(q, 1, i) \o <<x>> \o SubSeq(q, i + 1, Len(q))
RemoveAt(q, i) == SubSeq(q, 1, i - 1) \o SubSeq(q, i + 1, Len(q))

Bogus == EmptyElem(QN("Bogus", NS_EML), <<>>)
BogusTree == Elem(QN("Bogus", NS_EML), <<>>, <<Leaf(QN("TransactionId", NS_EML), "x")>>)

\* 230b documents
CandidateListAttrs == <<Attr(QNone("Id"), "230b"), Attr(QNone("SchemaVersion"), "5")>>
\* root attributes with a schema version that is not supported
OtherVersionAttrs ==
    {<<Attr(QNone("SchemaVersion"), "4")>>,
     <<Attr(QNone("SchemaVersion"), ""), Attr(QNone("Id"), "230b")>>,
     <<Attr(QNone("Id"), "110a"), Attr(QNone("SchemaVersion"), "4")>>}
CandidateListPool ==
    {Leaf(QN("TransactionId", NS_EML), "1"), Leaf(QN("TransactionId", NS_EML), "01"),
     Leaf(QN("TransactionId", NS_EML), "x"), Leaf(QN("TransactionId", NS_KR), "1"),
     EmptyElem(QN("TransactionId", NS_EML), <<>>),
     Elem(QN("TransactionId", NS_EML), <<>>, <<Txt("1"), Bogus>>),
     Bogus, BogusTree}
\* <EML Id="230b" SchemaVersion="5"><TransactionId>1</TransactionId></EML>: no xmlns
\* declaration is in scope, the names resolve to Unbound and carry no namespace
\* (namespace_name)
MinimalDocWithoutNamespace ==
    Elem(QNone("EML"), CandidateListAttrs, <<Leaf(QNone("TransactionId"), "1")>>)
CandidateListDocs ==
    {MinimalDocWithoutNamespace} \cup
    {Elem(QN("EML", NS_EML), CandidateListAttrs, kids) :
        kids \in SeqsUpTo(CandidateListPool, MaxChildren)}
    \cup {Elem(QN("EML", NS_EML), attrs, <<Leaf(QN("TransactionId", NS_EML), "1")>>) :
            attrs \in {<<Attr(QNone("Id"), "110a"), Attr(QNone("SchemaVersion"), "5")>>,
                       <<Attr(QNone("Id"), "230b"), Attr(QNone("SchemaVersion"), "4")>>,
                       <<Attr(QNone("SchemaVersion"), "5")>>,
                       <<Attr(QNone("Id"), "230b")>>}}
    \cup {Elem(QN("EML", NS_KR), CandidateListAttrs, <<>>), EmptyElem(QN("EML", NS_EML), CandidateListAttrs)}
    \cup {Elem(QN("EML", NS_EML), attrs, kids) :
            attrs \in OtherVersionAttrs, kids \in {<<>>, <<Bogus, Leaf(QN("TransactionId", NS_EML), "x")>>}}

\* ElectionIdentifier elements of a 110b document
IdentifierPool ==
    {Leaf(QN("ElectionName", NS_EML), "n"),
     Leaf(QN("ElectionCategory", NS_EML), "TK"), Leaf(QN("ElectionCategory", NS_EML), "x"),
     Leaf(QN("ElectionDate", NS_KR), "2025-10-05"), Leaf(QN("ElectionDate", NS_EML), "x"),
     Leaf(QNone("ElectionDate"), "2025-10-05Z"),
     Elem(QN("ElectionDomain", NS_KR), <<Attr(QNone("Id"), "0363")>>, <<Txt("d")>>)}
IdentifierAttrs ==
    {<<Attr(QNone("Id"), "TK2025")>>, <<Attr(QNone("Id"), "x")>>, <<>>}
PollingStationsElectionIdentifierDocs ==
    {Elem(QN("ElectionIdentifier", NS_EML), attrs, kids) :
        attrs \in IdentifierAttrs, kids \in SeqsUpTo(IdentifierPool, MaxChildren)}

\* Election elements of a 110a document
ValidIdentifier ==
    Elem(QN("ElectionIdentifier", NS_EML), <<Attr(QNone("Id"), "TK2025")>>,
         <<Leaf(QN("ElectionName", NS_EML), "n"), Leaf(QN("ElectionCategory", NS_EML), "TK"),
           Leaf(QN("ElectionSubcategory", NS_KR), "TK"),
           Leaf(QN("ElectionDate", NS_KR), "2025-10-05"),
           Leaf(QN("NominationDate", NS_KR), "2025-10-05Z")>>)
IdentifierBadCategory ==
    Elem(QN("ElectionIdentifier", NS_EML), <<Attr(QNone("Id"), "TK2025")>>,
         <<Leaf(QN("ElectionName", NS_EML), "n"), Leaf(QN("ElectionCategory", NS_EML), "x"),
           Leaf(QN("ElectionSubcategory", NS_KR), "TK"),
           Leaf(QN("ElectionDate", NS_KR), "2025-10-05"),
           Leaf(QN("NominationDate", NS_KR), "2025-10-05Z")>>)
ContestWith(method) ==
    Elem(QN("Contest", NS_EML), <<>>,
         <<EmptyElem(QN("ContestIdentifier", NS_EML), <<Attr(QNone("Id"), "geen")>>)>>
         \o method \o <<EmptyElem(QN("MaxVotes", NS_EML), <<>>)>>)
ValidContest == ContestWith(<<Leaf(QN("VotingMethod", NS_EML), "SPV")>>)
ContestMaxVotes(text) ==
    Elem(QN("Contest", NS_EML), <<>>,
         <<EmptyElem(QN("ContestIdentifier", NS_EML), <<Attr(QNone("Id"), "geen")>>),
           Leaf(QN("VotingMethod", NS_EML), "SPV"), Leaf(QN("MaxVotes", NS_EML), text)>>)
ContestBadMethod == ContestWith(<<Leaf(QN("VotingMethod", NS_EML), "x")>>)
ContestNoMethod == ContestWith(<<>>)
Party(name) ==
    Elem(RegisteredPartyName, <<>>, <<Leaf(QN("RegisteredAppellation", NS_KR), name)>>)
Parties(kids) == Elem(QN("RegisteredParties", NS_KR), <<>>, kids)
ValidParties == Parties(<<Party("p"), Party("q")>>)
PartiesPool ==
    {Parties(<<>>), ValidParties, Parties(<<Bogus>>), Parties(<<Party("p"), Bogus, Party("q")>>),
     Parties(<<Elem(RegisteredPartyName, <<>>, <<Bogus>>)>>)}
ElectionPool ==
    {Leaf(QN("NumberOfSeats", NS_KR), "1"), Leaf(QN("NumberOfSeats", NS_KR), "x"),
     Leaf(QN("PreferenceThreshold", NS_KR), "01"), EmptyElem(QN("ElectionTree", NS_KR), <<>>),
     ValidContest, Bogus, ValidParties}
ValidElection ==
    <<ValidIdentifier, ValidContest, Leaf(QN("NumberOfSeats", NS_KR), "1"),
      Leaf(QN("PreferenceThreshold", NS_KR), "01"), EmptyElem(QN("ElectionTree", NS_KR), <<>>),
      ValidParties>>
ElectionExtras ==
    {Bogus, BogusTree, Leaf(QN("NumberOfSeats", NS_KR), "x"), Leaf(QN("NumberOfSeats", NS_KR), "42"),
     Parties(<<Bogus>>)}
ElectionReplacements ==
    {[ValidElection EXCEPT ![1] = IdentifierBadCategory],
     [ValidElection EXCEPT ![2] = ContestBadMethod],
     [ValidElection EXCEPT ![2] = ContestNoMethod],
     [ValidElection EXCEPT ![2] = ContestMaxVotes("2")],
     [ValidElection EXCEPT ![2] = ContestMaxVotes("x")],
     [ValidElection EXCEPT ![3] = Leaf(QN("NumberOfSeats", NS_KR), "x")]}
    \cup {[ValidElection EXCEPT ![6] = p] : p \in PartiesPool}
ElectionDefinitionElectionDocs ==
    {Elem(QN("Election", NS_EML), <<>>, kids) :
        kids \in SeqsUpTo(ElectionPool, MaxChildren)
                 \cup {InsertAt(ValidElection, i, x) : i \in 0..6, x \in ElectionExtras}
                 \cup {RemoveAt(ValidElection, i) : i \in 1..6}
                 \cup ElectionReplacements \cup {ValidElection}}

Docs(b) ==
    CASE b = "CandidateList" -> CandidateListDocs
      [] b = "PollingStationsElectionIdentifier" -> PollingStationsElectionIdentifierDocs
      [] b = "ElectionDefinitionElection" -> ElectionDefinitionElectionDocs
RootBindings ==
    {"CandidateList", "PollingStationsElectionIdentifier", "ElectionDefinitionElection"}

(***************************************************************************)
(* The writer (src/src/io/writer.rs).  A written name is the pair of its   *)
(* prefix, if any, and its local name: the text "prefix:local" or "local". *)
(* An Option is the empty or the one-element sequence.  The prefix table   *)
(* is a HashMap: `order` is the order in which its keys are iterated.      *)
(***************************************************************************)
NS_XAL == "urn:oasis:names:tc:ciq:xsdschema:xAL:2.0"
NS_XNL == "urn:oasis:names:tc:ciq:xsdschema:xNL:2.0"

\* EMLErrorKind::without_span
UnknownPosition(k) == [tag |-> "UnknownPosition", kind |-> k, span |-> NoSpan, errors |-> <<>>]

NsDefinitions(default_namespace_uri, namespace_definitions) ==
    [default_namespace_uri |-> default_namespace_uri,
     namespace_definitions |-> namespace_definitions]
\* EMLWriter: the namespace definitions and the events written so far
EMLWriter(ns_definitions, order, writer) ==
    [ns_definitions |-> ns_definitions, order |-> order, writer |-> writer]

Tag(prefix, local) == [prefix |-> prefix, local |-> local]
NoTag == Tag(<<>>, "")
\* BytesStart: the name and the attributes pushed so far
BytesStart(tag, attrs) == [tag |-> tag, attrs |-> attrs]
Written(type, tag, attrs, text) == [type |-> type, tag |-> tag, attrs |-> attrs, text |-> text]

\* Result<_, EMLError> of a name resolution
W(ok, tag, err) == [ok |-> ok, tag |-> tag, err |-> err]

\* EMLWriter::is_default_namespace
is_default_namespace(w, namespace) ==
    IF namespace # <<>> /\ w.ns_definitions.default_namespace_uri # <<>>
    THEN namespace[1] = w.ns_definitions.default_namespace_uri[1]
    ELSE namespace = <<>> /\ w.ns_definitions.default_namespace_uri = <<>>

\* EMLWriter::has_default_namespace
has_default_namespace(w) == w.ns_definitions.default_namespace_uri # <<>>

\* the loop of resolve_namespace_prefix over the prefix table
RECURSIVE find_prefix(_, _, _)
find_prefix(w, i, namespace) ==
    IF i > Len(w.order) THEN <<>>
    ELSE IF w.ns_definitions.namespace_definitions[w.order[i]] = namespace THEN <<w.order[i]>>
    ELSE find_prefix(w, i + 1, namespace)

\* resolve_namespace_prefix with the prefix table consulted before the default namespace
resolve_namespace_prefix_table_first(w, namespace, is_attribute) ==
    (CHOOSE the \in {IF prefix # <<>> THEN W(TRUE, Tag(prefix, ""), NoError)
         ELSE IF ~is_default_namespace(w, <<namespace>>)
         THEN W(FALSE, NoTag, UnknownPosition(Kind1("UnknownNamespace", QNone(namespace))))
         ELSE IF is_attribute
         THEN W(FALSE, NoTag, UnknownPosition(Kind0("AttributeNamespaceError")))
         ELSE W(TRUE, NoTag, NoError) :
         prefix \in {find_prefix(w, 1, namespace)}} : TRUE)
\* EMLWriter::resolve_namespace_prefix
resolve_namespace_prefix(w, namespace, is_attribute) ==
    IF is_default_namespace(w, <<namespace>>)
    THEN IF is_attribute
         THEN W(FALSE, NoTag, UnknownPosition(Kind0("AttributeNamespaceError")))
         ELSE W(TRUE, NoTag, NoError)
    ELSE (CHOOSE the \in {IF prefix # <<>> THEN W(TRUE, Tag(prefix, ""), NoError)
              ELSE W(FALSE, NoTag,
                     UnknownPosition(Kind1("UnknownNamespace", QNone(namespace)))) :
              prefix \in {find_prefix(w, 1, namespace)}} : TRUE)

\* EMLWriter::format_qname
format_qname(w, name, is_attribute) ==
    IF name.namespace = <<>> THEN W(TRUE, Tag(<<>>, name.local_name), NoError)
    ELSE (CHOOSE the \in {IF ~r.ok THEN r ELSE W(TRUE, Tag(r.tag.prefix, name.local_name), NoError) :
              r \in {resolve_namespace_prefix(w, name.namespace[1], is_attribute)}} : TRUE)

\* EMLElementWriter::new without the check on names without namespace
EMLElementWriter_new_without_check(w, name) == format_qname(w, name, FALSE)
\* EMLElementWriter::new
EMLElementWriter_new(w, name) ==
    (CHOOSE the \in {IF ~elem_name.ok THEN elem_name
         ELSE IF name.namespace = <<>> /\ has_default_namespace(w)
         THEN W(FALSE, NoTag, UnknownPosition(Kind0("ElementNamespaceError")))
         ELSE elem_name :
         elem_name \in {format_qname(w, name, FALSE)}} : TRUE)

\* EMLElementWriter::attr on the start tag the element writer holds: the start tag as
\* attr leaves it, which on Err is dropped with the element writer
attr(w, start_tag, name, value) ==
    (CHOOSE the \in {[out |-> attr_name,
                      start_tag |-> IF ~attr_name.ok THEN start_tag
                                    ELSE BytesStart(start_tag.tag,
                                                    Append(start_tag.attrs,
                                                           Attr(attr_name.tag, value)))] :
                     attr_name \in {format_qname(w, name, TRUE)}} : TRUE)

\* no writer in use; dropped is the start tag a failed attr gave up, returned is set
\* when the routine of the root element has returned Ok
NoWR ==
    [w |-> EMLWriter(NsDefinitions(<<>>, <<>>), <<>>, <<>>), stack |-> <<>>, pending |-> <<>>,
     dropped |-> <<>>, failed |-> FALSE, returned |-> FALSE, op |-> "none", name |-> NoName, before |-> <<>>, out |-> W(TRUE, NoTag, NoError)]

(***************************************************************************)
(* Serialization of the schema bindings.  WS is the Result of a chain of   *)
(* writer calls together with the writer; a failed chain writes no more.   *)
(***************************************************************************)
WS(ok, err, w) == [ok |-> ok, err |-> err, w |-> w]

\* EMLElementWriter::attr for each (name, value) of attrs, onto the raw attributes
RECURSIVE push_attrs(_, _, _, _)
push_attrs(w, attrs, i, out) ==
    IF i > Len(attrs) THEN [ok |-> TRUE, err |-> NoError, attrs |-> out]
    ELSE (CHOOSE the \in {IF ~q.ok THEN [ok |-> FALSE, err |-> q.err, attrs |-> out]
              ELSE push_attrs(w, attrs, i + 1, Append(out, Attr(q.tag, attrs[i].value))) :
              q \in {format_qname(w, attrs[i].key, TRUE)}} : TRUE)

\* EMLElementWriter::new, attr_raw and attr, then content or empty
write_start(type, ws, name, raw_attrs, attrs) ==
    IF ~ws.ok THEN ws
    ELSE (CHOOSE the \in {IF ~q.ok THEN WS(FALSE, q.err, ws.w)
              ELSE (CHOOSE the \in {IF ~a.ok THEN WS(FALSE, a.err, ws.w)
                        ELSE WS(TRUE, NoError,
                                [ws.w EXCEPT !.writer = Append(@, Written(type, q.tag, a.attrs, ""))]) :
                        a \in {push_attrs(ws.w, attrs, 1, raw_attrs)}} : TRUE) :
              q \in {EMLElementWriter_new(ws.w, name)}} : TRUE)
content(ws, name, raw_attrs, attrs) == write_start("Start", ws, name, raw_attrs, attrs)
empty(ws, name, attrs) == write_start("Empty", ws, name, <<>>, attrs)

\* EMLElementContentWriter::text
text(ws, t) ==
    IF ~ws.ok THEN ws
    ELSE WS(TRUE, NoError, [ws.w EXCEPT !.writer = Append(@, Written("Text", NoTag, <<>>, t))])

\* EMLElementContentWriter::finish: the end tag of the start tag the writer holds
finish(ws, name) ==
    IF ~ws.ok THEN ws
    ELSE WS(TRUE, NoError,
            [ws.w EXCEPT !.writer = Append(@, Written("End", format_qname(ws.w, name, FALSE).tag,
                                                       <<>>, ""))])

\* child(name, |elem| elem.text(t)?.finish()), with attributes for ElectionDomain
text_child(ws, name, attrs, t) == finish(text(content(ws, name, <<>>, attrs), t), name)

\* child_option / child_elem_option: nothing is written for None
Some(v) == v.variant # "None"

\* One call on the content writer of an element: child(name, |elem| elem.text(t)?
\* .finish()) is "text_child", child(name, |elem| elem.empty()) is "empty",
\* child_elem(name, value) is "write_eml", child(name, ...content()) is "content" and
\* the finish() of such a child is "finish"
WriterCall(op, name, attrs, t, b, v) ==
    [op |-> op, name |-> name, attrs |-> attrs, t |-> t, b |-> b, v |-> v]
child_text(name, attrs, t) == WriterCall("text_child", name, attrs, t, "", NoneV)
child_empty(name, attrs) == WriterCall("empty", name, attrs, "", "", NoneV)
child_elem(name, b, v) == WriterCall("write_eml", name, <<>>, "", b, v)
child_content(name) == WriterCall("content", name, <<>>, "", "", NoneV)
child_finish(name) == WriterCall("finish", name, <<>>, "", "", NoneV)
\* child_option / child_elem_option: no call for None
child_option(v, call) == IF Some(v) THEN <<call>> ELSE <<>>

MaxVotesName == QN("MaxVotes", NS_EML)
\* the MaxVotes child of ElectionDefinitionContest::write_eml
write_max_votes(v) ==
    IF raw(v) = "1" THEN child_empty(MaxVotesName, <<>>)
    ELSE child_text(MaxVotesName, <<>>, raw(v))

\* ElectionDomain::write_eml
write_domain(v) ==
    child_text(QN("ElectionDomain", NS_KR), <<Attr(QNone("Id"), raw(v.sub[1]))>>, v.sub[2].s)

\* ElectionDefinitionRegisteredParty::write_list: for each party the RegisteredParty
\* element, its RegisteredAppellation and its end
write_parties(parties) ==
    [k \in 1..(3 * Len(parties)) |->
        CASE k % 3 = 1 -> child_content(RegisteredPartyName)
          [] k % 3 = 2 -> child_text(QN("RegisteredAppellation", NS_KR), <<>>,
                                     parties[(k + 1) \div 3].sub[1].s)
          [] OTHER -> child_finish(RegisteredPartyName)]

\* the attributes EMLElement::write_eml sets on the element itself
own_attrs(b, v) ==
    CASE b = "CandidateList" ->
            <<Attr(QNone("Id"), EML_CANDIDATE_LIST_ID),
              Attr(QNone("SchemaVersion"), EML_SCHEMA_VERSION)>>
      [] b = "ElectionDefinition" ->
            <<Attr(QNone("Id"), EML_ELECTION_DEFINITION_ID),
              Attr(QNone("SchemaVersion"), EML_SCHEMA_VERSION)>>
      [] b \in {"PollingStationsElectionIdentifier", "ElectionDefinitionElectionIdentifier"} ->
            <<Attr(QNone("Id"), raw(v.sub[1]))>>
      [] OTHER -> <<>>

\* the calls EMLElement::write_eml makes on the content writer, in order, before finish
writer_calls(b, v) ==
    CASE b = "CandidateList" -> <<child_text(QN("TransactionId", NS_EML), <<>>, raw(v.sub[1]))>>
      [] b = "PollingStationsElectionIdentifier" ->
            child_option(v.sub[2], child_text(QN("ElectionName", NS_EML), <<>>, v.sub[2].s))
            \o <<child_text(QN("ElectionCategory", NS_EML), <<>>, raw(v.sub[3]))>>
            \o child_option(v.sub[4],
                            child_text(QN("ElectionSubcategory", NS_KR), <<>>, raw(v.sub[4])))
            \o child_option(v.sub[5], write_domain(v.sub[5]))
            \o <<child_text(QN("ElectionDate", NS_KR), <<>>, raw(v.sub[6]))>>
      [] b = "ElectionDefinitionElectionIdentifier" ->
            <<child_text(QN("ElectionName", NS_EML), <<>>, v.sub[2].s),
              child_text(QN("ElectionCategory", NS_EML), <<>>, raw(v.sub[3])),
              child_text(QN("ElectionSubcategory", NS_KR), <<>>, raw(v.sub[4]))>>
            \o child_option(v.sub[5], write_domain(v.sub[5]))
            \o <<child_text(QN("ElectionDate", NS_KR), <<>>, raw(v.sub[6])),
                 child_text(QN("NominationDate", NS_KR), <<>>, raw(v.sub[7]))>>
      [] b = "ElectionDefinitionContest" ->
            <<child_empty(QN("ContestIdentifier", NS_EML),
                          <<Attr(QNone("Id"), raw(v.sub[1].sub[1]))>>),
              child_text(QN("VotingMethod", NS_EML), <<>>, raw(v.sub[2])),
              write_max_votes(v.sub[3])>>
      \* the canonicalization method (v.sub[2]) is not written
      [] b = "ElectionDefinition" ->
            <<child_text(QN("TransactionId", NS_EML), <<>>, raw(v.sub[1])),
              child_text(QN("CreationDateTime", NS_KR), <<>>, raw(v.sub[3]))>>
            \o child_option(v.sub[4], child_text(QN("IssueDate", NS_EML), <<>>, raw(v.sub[4])))
            \o child_option(v.sub[5],
                            child_elem(QN("ManagingAuthority", NS_EML), "ManagingAuthority",
                                       v.sub[5]))
            \o <<child_elem(QN("ElectionEvent", NS_EML), "ElectionDefinitionElectionEvent",
                            v.sub[6])>>
      [] b = "ElectionDefinitionElectionEvent" ->
            <<child_empty(QN("EventIdentifier", NS_EML), <<>>),
              child_elem(QN("Election", NS_EML), "ElectionDefinitionElection", v.sub[2])>>
      [] b = "ElectionDefinitionElection" ->
            <<child_elem(QN("ElectionIdentifier", NS_EML),
                         "ElectionDefinitionElectionIdentifier", v.sub[1]),
              child_elem(QN("Contest", NS_EML), "ElectionDefinitionContest", v.sub[2]),
              child_empty(QN("ElectionTree", NS_KR), <<>>),
              child_text(QN("NumberOfSeats", NS_KR), <<>>, raw(v.sub[3])),
              child_text(QN("PreferenceThreshold", NS_KR), <<>>, raw(v.sub[4])),
              child_content(QN("RegisteredParties", NS_KR))>>
            \o write_parties(v.sub[6].sub)
            \o <<child_finish(QN("RegisteredParties", NS_KR))>>

\* EMLElement::write_eml of the modelled bindings on the element `name`, whose start
\* tag already holds raw_attrs: the start tag, the calls in order, the end tag
RECURSIVE write_eml(_, _, _, _, _)
RECURSIVE write_calls(_, _, _)
write_call(ws, call) ==
    CASE call.op = "text_child" -> text_child(ws, call.name, call.attrs, call.t)
      [] call.op = "empty" -> empty(ws, call.name, call.attrs)
      [] call.op = "write_eml" -> write_eml(call.b, call.v, ws, call.name, <<>>)
      [] call.op = "content" -> content(ws, call.name, <<>>, call.attrs)
      [] call.op = "finish" -> finish(ws, call.name)
write_calls(ws, calls, i) ==
    IF i > Len(calls) THEN ws
    ELSE (CHOOSE the \in {write_calls(w, calls, i + 1) : w \in {write_call(ws, calls[i])}} : TRUE)
write_eml(b, v, ws, name, raw_attrs) ==
    (CHOOSE the \in {write_calls(w, writer_calls(b, v) \o <<child_finish(name)>>, 1) :
                     w \in {content(ws, name, raw_attrs, own_attrs(b, v))}} : TRUE)

\* the namespace definitions write_root uses when none are given
RootNamespaces == [p \in {"kr", "xal", "xnl"} |-> CASE p = "kr" -> NS_KR [] p = "xal" -> NS_XAL [] p = "xnl" -> NS_XNL]

\* EMLWriteInternal::write_root with the default root name and namespaces, no pretty
\* printing; order is the iteration order of the namespace definitions
write_root(b, v, include_declaration, order) ==
    LET w == EMLWriter(NsDefinitions(<<NS_EML>>, RootNamespaces), order,
                       IF include_declaration THEN <<Written("Decl", NoTag, <<>>, "")>> ELSE <<>>)
        xmlns == <<Attr(Tag(<<>>, "xmlns"), NS_EML)>>
                 \o [i \in 1..Len(order) |-> Attr(Tag(<<"xmlns">>, order[i]), RootNamespaces[order[i]])]
    IN  write_eml(b, v, WS(TRUE, NoError, w), QN("EML", NS_EML), xmlns)

(***************************************************************************)
(* Reading a written document back: quick-xml resolves the written names   *)
(* against the xmlns declarations of the root element, unescapes nothing   *)
(* itself and yields an entity reference as an event of its own.           *)
(***************************************************************************)
NS_XMLNS == "http://www.w3.org/2000/xmlns/"
Declarations(written) ==
    LET root == written[CHOOSE i \in 1..Len(written) :
                            /\ written[i].type \in {"Start", "Empty"}
                            /\ \A j \in 1..(i - 1) : written[j].type \notin {"Start", "Empty"}]
        decl == {root.attrs[k] : k \in 1..Len(root.attrs)}
    IN  [default |-> IF \E a \in decl : a.key = Tag(<<>>, "xmlns")
                     THEN <<(CHOOSE a \in decl : a.key = Tag(<<>>, "xmlns")).value>> ELSE <<>>,
         prefixes |-> [p \in {a.key.local : a \in {x \in decl : x.key.prefix = <<"xmlns">>}} |->
                          (CHOOSE a \in decl : a.key = Tag(<<"xmlns">>, p)).value]]
\* NsReader::resolve_element and resolve_attribute, then get_resolved_name
resolve_element(scope, tag) ==
    IF tag.prefix = <<>> THEN QualifiedName(tag.local, scope.default)
    ELSE QN(tag.local, scope.prefixes[tag.prefix[1]])
resolve_attribute(scope, tag) ==
    IF tag.prefix = <<>> THEN QNone(tag.local)
    ELSE IF tag.prefix[1] = "xmlns" THEN QN(tag.local, NS_XMLNS)
    ELSE QN(tag.local, scope.prefixes[tag.prefix[1]])
\* BytesText::new escapes the text; the reader yields the pieces of the escaped text
escaped(t) ==
    IF t = "" THEN <<>>
    ELSE IF t = "&" THEN <<Event("GeneralRef", NoName, <<>>, "amp")>>
    ELSE <<Event("Text", NoName, <<>>, t)>>
\* the events of one written item
read_item(item, scope) ==
    CASE item.type \in {"Start", "Empty"} ->
            <<Event(item.type, resolve_element(scope, item.tag),
                    [k \in 1..Len(item.attrs) |->
                        Attr(resolve_attribute(scope, item.attrs[k].key), item.attrs[k].value)],
                    "")>>
      [] item.type = "End" -> <<Event("End", resolve_element(scope, item.tag), <<>>, "")>>
      [] item.type = "Text" -> escaped(item.text)
      [] OTHER -> <<Event(item.type, NoName, <<>>, "")>>
\* the events of the items first..last, in order
RECURSIVE read_written(_, _, _, _)
read_written(written, first, last, scope) ==
    IF first > last THEN <<>>
    ELSE IF first = last THEN read_item(written[first], scope)
    ELSE read_written(written, first, (first + last) \div 2, scope)
         \o read_written(written, (first + last) \div 2 + 1, last, scope)
init_from_written(written) == read_written(written, 1, Len(written), Declarations(written))

\* nothing serialized yet
NoRT ==
    [stage |-> "none", mode |-> "Strict", written |-> WS(TRUE, NoError, NoWR.w), out |-> Pending]

(***************************************************************************)
(* The program: one input document is parsed under each parsing mode.      *)
(***************************************************************************)
\* no call of string_value_from_text, no run of the @matcher chain
NoCall == SV(FALSE, NoneV, NoError, <<>>)
NoSV ==
    [t |-> "String", text |-> "", name |-> NoName, span |-> NoSpan, mode |-> "Loose",
     errors |-> <<>>, called |-> FALSE, out |-> NoCall]
NoMatch == M(FALSE, FALSE, NoError, NoReader, 0, <<>>, <<>>)
NoMT == [slots |-> <<>>, child |-> Bogus, called |-> FALSE, out |-> NoMatch]
\* no element reader in use
NoResult == R("None", NoReader, 0, Eof, NoSpan, NoError, NoReader, "")
Before(er, pos) == [er |-> er, pos |-> pos]
NoRD ==
    [input |-> <<>>, stack |-> <<>>, pos |-> 0, op |-> "none", before |-> Before(NoReader, 0),
     out |-> NoResult, prev |-> [op |-> "none", err |-> NoError]]

Init ==
    /\ ty \in RootBindings
    /\ doc \in Docs(ty)
    /\ events = Flatten(doc)
    /\ res = [m \in EMLParsingMode |-> Pending]
    /\ sv = NoSV
    /\ mt = NoMT
    /\ rd = NoRD
    /\ wr = NoWR
    /\ rt = NoRT

\* T::parse_eml(input, mode)
Parse(m) ==
    /\ res[m] = Pending
    /\ res' = [res EXCEPT ![m] = parse_eml(ty, events, m)]
    /\ UNCHANGED <<doc, events, ty, sv, mt, rd, wr, rt>>

Next == \E m \in EMLParsingMode : Parse(m)

Spec == Init /\ [][Next]_vars

(***************************************************************************)
(* Typed value construction on its own: a text, a field type, a field      *)
(* name, a span, a mode and the accumulator so far are handed to           *)
(* string_value_from_text.                                                 *)
(***************************************************************************)
SampleTexts == {"", "0", "1", "01", "x", "TK", "SPV", "geen", "2025-10-05Z"}
SampleNames == {QN("TransactionId", NS_EML), QNone("Id")}
SampleSpans == {Span(0, 1), Span(2, 3)}
SampleErrors ==
    {<<>>, <<Positioned(Kind("UnexpectedElement", QN("Bogus", NS_EML), QN("EML", NS_EML)),
                        Span(1, 2))>>}
MinimalDoc == Elem(QN("EML", NS_EML), CandidateListAttrs, <<Leaf(QN("TransactionId", NS_EML), "1")>>)

InitSV ==
    /\ ty = "CandidateList"
    /\ doc = MinimalDoc
    /\ events = Flatten(doc)
    /\ res = [m \in EMLParsingMode |-> Pending]
    /\ sv \in [t : StringValueTypes, text : SampleTexts, name : SampleNames,
               span : SampleSpans, mode : EMLParsingMode, errors : SampleErrors,
               called : {FALSE}, out : {NoCall}]
    /\ mt = NoMT
    /\ rd = NoRD
    /\ wr = NoWR
    /\ rt = NoRT

\* EMLElementReader::string_value_from_text(text, name, span)
StringValueFromText ==
    /\ ~sv.called
    /\ sv' = [sv EXCEPT !.called = TRUE,
                        !.out = string_value_from_text(sv.t, sv.text, sv.name, sv.span,
                                                       sv.mode, sv.errors)]
    /\ UNCHANGED <<doc, events, ty, res, mt, rd, wr, rt>>

NextSV == StringValueFromText

SpecSV == InitSV /\ [][NextSV]_vars

(***************************************************************************)
(* The @matcher chain on its own: a slot list and one child element.       *)
(***************************************************************************)
MaxSlots == 3

SlotNames == {QN("A", NS_EML), QN("A", NS_KR), QNone("A"), QN("B", NS_EML)}
SlotPool ==
    {Slot("f", k, n, "text", "") : k \in {"field", "optional"}, n \in SlotNames}
    \cup {Slot("d", "direct", QNone("A"), "string_value_attr", "String")}
SlotLists == SeqsUpTo(SlotPool, MaxSlots) \ {<<>>}

InitMT ==
    /\ ty = "CandidateList"
    /\ doc = MinimalDoc
    /\ events = Flatten(doc)
    /\ res = [m \in EMLParsingMode |-> Pending]
    /\ sv = NoSV
    /\ mt \in [slots : SlotLists, child : {Leaf(n, "v") : n \in SlotNames},
               called : {FALSE}, out : {NoMatch}]
    /\ rd = NoRD
    /\ wr = NoWR
    /\ rt = NoRT

\* one pass of the loop body of collect_struct! over the child
Match ==
    /\ ~mt.called
    /\ mt' = [mt EXCEPT !.called = TRUE,
                        !.out = matcher(mt.slots, 1, FALSE, Flatten(mt.child), "Loose",
                                        from_start(Flatten(mt.child)[1], FALSE, Span(0, 1)),
                                        2, <<>>, [j \in 1..Len(mt.slots) |-> EmptySlot])]
    /\ UNCHANGED <<doc, events, ty, res, sv, rd, wr, rt>>

NextMT == Match

SpecMT == InitMT /\ [][NextMT]_vars

(***************************************************************************)
(* Inputs with a structural XML error.  The tokens of a well-formed         *)
(* document are damaged in one place: the input is cut off, a malformed     *)
(* token is inserted, or an end tag is renamed.  read_event of quick-xml    *)
(* (check_end_names is on by default) reports an end tag that does not      *)
(* close the innermost open element as an error.                            *)
(***************************************************************************)
ErrorEvent == Event("Error", NoName, <<>>, "")

\* NsReader::read_event over the whole input: the events EMLReader::next sees
RECURSIVE read_events(_, _, _)
read_events(tokens, i, open) ==
    IF i > Len(tokens) THEN <<>>
    ELSE IF tokens[i].type = "Start"
    THEN <<tokens[i]>> \o read_events(tokens, i + 1, Append(open, tokens[i].name))
    ELSE IF tokens[i].type = "End"
    THEN IF open # <<>> /\ open[Len(open)] = tokens[i].name
         THEN <<tokens[i]>> \o read_events(tokens, i + 1, SubSeq(open, 1, Len(open) - 1))
         ELSE <<ErrorEvent>> \o read_events(tokens, i + 1, open)
    ELSE <<tokens[i]>> \o read_events(tokens, i + 1, open)

CutOff(tokens) == {SubSeq(tokens, 1, k) : k \in 1..(Len(tokens) - 1)}
WithMalformedToken(tokens) == {InsertAt(tokens, k, ErrorEvent) : k \in 0..Len(tokens)}
WithRenamedEndTag(tokens) ==
    {[tokens EXCEPT ![k] = Event("End", QN("Bogus", NS_EML), <<>>, "")] :
        k \in {j \in 1..Len(tokens) : tokens[j].type = "End"}}
Damaged(tokens) == CutOff(tokens) \cup WithMalformedToken(tokens) \cup WithRenamedEndTag(tokens)

SkippingDoc ==
    Elem(QN("EML", NS_EML), CandidateListAttrs, <<BogusTree, Leaf(QN("TransactionId", NS_EML), "1")>>)
IdentifierDoc ==
    Elem(QN("ElectionIdentifier", NS_EML), <<Attr(QNone("Id"), "TK2025")>>,
         <<Leaf(QN("ElectionCategory", NS_EML), "TK"),
           Elem(QN("ElectionDomain", NS_KR), <<Attr(QNone("Id"), "0363")>>, <<Txt("d")>>),
           Leaf(QN("ElectionDate", NS_KR), "2025-10-05")>>)
WellFormedDocs == {MinimalDoc, SkippingDoc, IdentifierDoc}

InitXml ==
    /\ doc \in WellFormedDocs
    /\ ty = IF doc = IdentifierDoc THEN "PollingStationsElectionIdentifier" ELSE "CandidateList"
    /\ events \in {read_events(tokens, 1, <<>>) : tokens \in Damaged(Flatten(doc))}
    /\ res = [m \in EMLParsingMode |-> Pending]
    /\ sv = NoSV
    /\ mt = NoMT
    /\ rd = NoRD
    /\ wr = NoWR
    /\ rt = NoRT

SpecXml == InitXml /\ [][Next]_vars

(***************************************************************************)
(* Inputs without a root element: the empty input, and inputs that hold    *)
(* only an XML declaration, text, comments or processing instructions.     *)
(***************************************************************************)
PrologEvents ==
    {Event("Decl", NoName, <<>>, ""), Event("Text", NoName, <<>>, "t"),
     Event("Comment", NoName, <<>>, "c"), Event("PI", NoName, <<>>, "p")}
InitProlog ==
    /\ doc = MinimalDoc
    /\ ty \in RootBindings
    /\ events \in SeqsUpTo(PrologEvents, MaxChildren - 1)
    /\ res = [m \in EMLParsingMode |-> Pending]
    /\ sv = NoSV
    /\ mt = NoMT
    /\ rd = NoRD
    /\ wr = NoWR
    /\ rt = NoRT

SpecProlog == InitProlog /\ [][Next]_vars

(***************************************************************************)
(* The element reader on its own.  rd.stack holds the element readers in   *)
(* scope, the innermost last: only the innermost can be used, the others   *)
(* are borrowed by their child.  rd.before is the innermost reader and the *)
(* cursor before the last operation, rd.out what the operation returned,   *)
(* rd.prev the operation before that one and its error.                    *)
(* The inputs are the events of small documents, also cut off, with a      *)
(* malformed token, or with an end tag of another name (which a reader     *)
(* that does not check end names hands on as it is).                       *)
(***************************************************************************)
Na == QN("a", NS_EML)
Nb == QN("b", NS_EML)
ReaderTrees ==
    {Elem(Na, <<>>, <<Txt("1"), CData("2"), Ref("amp"), Txt("3")>>),
     Elem(Na, <<>>, <<Txt("1"), Comment("c"), Ref("lt")>>),
     Elem(Na, <<>>, <<Txt("1"), Ref("bogus"), Txt("2")>>),
     Elem(Na, <<>>, <<Txt("1"), PI("p"), Txt("2")>>),
     Elem(Na, <<>>, <<Elem(Nb, <<>>, <<Txt("1"), Elem(Na, <<>>, <<Txt("2")>>), EmptyElem(Nb, <<>>)>>),
                      Txt("3")>>),
     Elem(Na, <<>>, <<EmptyElem(Nb, <<>>), Elem(Na, <<>>, <<>>), Txt("1")>>)}
ReaderInputs ==
    UNION {{Flatten(t)} \cup CutOff(Flatten(t)) \cup WithMalformedToken(Flatten(t))
           \cup WithRenamedEndTag(Flatten(t)) : t \in ReaderTrees}

InitER ==
    /\ ty = "CandidateList"
    /\ doc = MinimalDoc
    /\ events = Flatten(doc)
    /\ res = [m \in EMLParsingMode |-> Pending]
    /\ sv = NoSV
    /\ mt = NoMT
    /\ rd \in {[NoRD EXCEPT !.input = i, !.pos = 2,
                             !.stack = <<from_start(i[1], FALSE, Span(0, 1))>>] :
                 i \in {j \in ReaderInputs : j[1].type = "Start"}}
    /\ wr = NoWR
    /\ rt = NoRT

Top == rd.stack[Len(rd.stack)]
\* the state after the innermost reader ran an operation that returned r
Ran(op, r) ==
    [rd EXCEPT !.stack[Len(rd.stack)] = r.er, !.pos = r.pos, !.op = op,
               !.before = Before(Top, rd.pos), !.out = [r EXCEPT !.er = NoReader],
               !.prev = [op |-> rd.op, err |-> rd.out.err]]

\* EMLElementReader::next
ElemNext ==
    /\ rd.stack # <<>>
    /\ rd' = Ran("next", elem_next(rd.input, Top, rd.pos))
    /\ UNCHANGED <<doc, events, ty, res, sv, mt, wr, rt>>

\* EMLElementReader::next_child: the child it returns borrows the reader
WithChild(r, n) == IF r.out = "Some" THEN [n EXCEPT !.stack = Append(n.stack, r.child)] ELSE n
NextChild ==
    /\ rd.stack # <<>>
    /\ rd' = (CHOOSE the \in {WithChild(r, Ran("next_child", r)) :
                  r \in {next_child(rd.input, Top, rd.pos)}} : TRUE)
    /\ UNCHANGED <<doc, events, ty, res, sv, mt, wr, rt>>

\* EMLElementReader::text_without_children
TextWithoutChildren ==
    /\ rd.stack # <<>>
    /\ rd' = Ran("text", text_without_children(rd.input, Top, rd.pos))
    /\ UNCHANGED <<doc, events, ty, res, sv, mt, wr, rt>>

\* the innermost child reader goes out of scope
DropChild ==
    /\ Len(rd.stack) > 1
    /\ rd' = [rd EXCEPT !.stack = SubSeq(rd.stack, 1, Len(rd.stack) - 1),
                        !.pos = drop(rd.input, Top, rd.pos), !.op = "drop",
                        !.before = Before(Top, rd.pos), !.out = NoResult,
                        !.prev = [op |-> rd.op, err |-> rd.out.err]]
    /\ UNCHANGED <<doc, events, ty, res, sv, mt, wr, rt>>

\* EMLElementReader::skip
Skip ==
    /\ rd.stack # <<>>
    /\ rd' = Ran("skip", skip(rd.input, Top, rd.pos))
    /\ UNCHANGED <<doc, events, ty, res, sv, mt, wr, rt>>

NextER == ElemNext \/ NextChild \/ TextWithoutChildren \/ Skip \/ DropChild

SpecER == InitER /\ [][NextER]_vars

(***************************************************************************)
(* The writer on its own: under one configuration of default namespace and *)
(* prefix table, elements are created, given attributes, opened, filled    *)
(* with text, closed or written empty.  An error ends the serialization.   *)
(***************************************************************************)
MaxWritten == 3
MaxOpen == 2
WriterNames == {QN("A", NS_EML), QN("A", NS_KR), QN("A", NS_XAL), QNone("A")}
WriterAttrNames == {QNone("Id"), QN("Id", NS_EML), QN("Id", NS_KR)}
DefaultNamespaces == {<<>>, <<NS_EML>>}
PrefixTables ==
    {[p \in {} |-> NS_KR], [p \in {"kr"} |-> NS_KR], [p \in {"kr", "k2"} |-> NS_KR],
     [p \in {"kr", "eml"} |-> IF p = "kr" THEN NS_KR ELSE NS_EML]}
\* the orders in which a HashMap with keys S can be iterated
Orders(S) == {o \in [1..Cardinality(S) -> S] : \A i, j \in 1..Cardinality(S) : i # j => o[i] # o[j]}

InitWR ==
    /\ ty = "CandidateList"
    /\ doc = MinimalDoc
    /\ events = Flatten(doc)
    /\ res = [m \in EMLParsingMode |-> Pending]
    /\ sv = NoSV
    /\ mt = NoMT
    /\ rd = NoRD
    /\ rt = NoRT
    /\ \E d \in DefaultNamespaces : \E table \in PrefixTables : \E o \in Orders(DOMAIN table) :
          wr = [NoWR EXCEPT !.w = EMLWriter(NsDefinitions(d, table), o, <<>>)]

Emit(w, e) == [w EXCEPT !.writer = Append(@, e)]

\* EMLElementContentWriter::child and write_root up to EMLElementWriter::new
ElementWriterNew ==
    \E name \in WriterNames :
        /\ ~wr.failed /\ wr.pending = <<>>
        /\ Len(wr.stack) < MaxOpen /\ Len(wr.w.writer) < MaxWritten
        /\ ~wr.returned
        /\ wr' = (CHOOSE the \in {[wr EXCEPT !.pending = IF r.ok THEN <<BytesStart(r.tag, <<>>)>> ELSE <<>>,
                                 !.failed = ~r.ok, !.op = "new", !.name = name,
                                 !.before = wr.w.writer, !.out = r] :
                      r \in {EMLElementWriter_new(wr.w, name)}} : TRUE)
        /\ UNCHANGED <<doc, events, ty, res, sv, mt, rd, rt>>

\* EMLElementWriter::attr, with a name the start tag does not hold yet; the root
\* element is given up to two attributes, any other element one
WriterAttr ==
    \E name \in WriterAttrNames :
        /\ wr.pending # <<>>
        /\ wr.pending[1].attrs = <<>> \/ (wr.stack = <<>> /\ Len(wr.pending[1].attrs) = 1)
        /\ \E r \in {attr(wr.w, wr.pending[1], name, "v")} :
              /\ r.out.ok => \A i \in 1..Len(wr.pending[1].attrs) :
                                 wr.pending[1].attrs[i].key # r.out.tag
              /\ wr' = [wr EXCEPT !.pending = IF r.out.ok THEN <<r.start_tag>> ELSE <<>>,
                                  !.dropped = IF r.out.ok THEN <<>> ELSE <<r.start_tag>>,
                                  !.failed = ~r.out.ok, !.op = "attr", !.name = name,
                                  !.before = wr.w.writer, !.out = r.out]
        /\ UNCHANGED <<doc, events, ty, res, sv, mt, rd, rt>>

\* EMLElementWriter::content
WriterContent ==
    /\ wr.pending # <<>>
    /\ wr' = [wr EXCEPT !.w = Emit(@, Written("Start", wr.pending[1].tag, wr.pending[1].attrs, "")),
                        !.stack = Append(@, wr.pending[1]), !.pending = <<>>,
                        !.op = "content", !.before = wr.w.writer]
    /\ UNCHANGED <<doc, events, ty, res, sv, mt, rd, rt>>

\* EMLElementWriter::empty
WriterEmpty ==
    /\ wr.pending # <<>>
    /\ wr' = [wr EXCEPT !.w = Emit(@, Written("Empty", wr.pending[1].tag, wr.pending[1].attrs, "")),
                        !.pending = <<>>, !.op = "empty", !.before = wr.w.writer,
                        !.returned = wr.stack = <<>>]
    /\ UNCHANGED <<doc, events, ty, res, sv, mt, rd, rt>>

\* EMLElementContentWriter::text
WriterText ==
    /\ ~wr.failed /\ wr.pending = <<>> /\ wr.stack # <<>>
    /\ Len(wr.w.writer) < MaxWritten
    /\ wr' = [wr EXCEPT !.w = Emit(@, Written("Text", NoTag, <<>>, "t")),
                        !.op = "text", !.before = wr.w.writer]
    /\ UNCHANGED <<doc, events, ty, res, sv, mt, rd, rt>>

\* EMLElementContentWriter::finish
WriterFinish ==
    /\ ~wr.failed /\ wr.pending = <<>> /\ wr.stack # <<>>
    /\ wr' = [wr EXCEPT !.w = Emit(@, Written("End", wr.stack[Len(wr.stack)].tag, <<>>, "")),
                        !.stack = SubSeq(@, 1, Len(@) - 1),
                        !.op = "finish", !.before = wr.w.writer,
                        !.returned = Len(wr.stack) = 1]
    /\ UNCHANGED <<doc, events, ty, res, sv, mt, rd, rt>>

NextWR ==
    ElementWriterNew \/ WriterAttr \/ WriterContent \/ WriterEmpty \/ WriterText \/ WriterFinish

SpecWR == InitWR /\ [][NextWR]_vars

(***************************************************************************)
(* The writer under any element-writing routine.  A routine is handed the  *)
(* element writer by value and returns Result<(), EMLError>: besides the   *)
(* calls above it may return Ok(()) while it still holds the element       *)
(* writer, or the content writer content() gave it.  Neither type has a    *)
(* Drop implementation, so nothing is written when it goes out of scope.   *)
(***************************************************************************)
InitWF ==
    /\ ty = "CandidateList"
    /\ doc = MinimalDoc
    /\ events = Flatten(doc)
    /\ res = [m \in EMLParsingMode |-> Pending]
    /\ sv = NoSV
    /\ mt = NoMT
    /\ rd = NoRD
    /\ rt = NoRT
    /\ wr = [NoWR EXCEPT !.w = EMLWriter(NsDefinitions(<<NS_EML>>, [p \in {"kr"} |-> NS_KR]),
                                         <<"kr">>, <<>>)]

\* the routine returns Ok(()) holding the EMLElementWriter: no tag is written
ReturnWithElementWriter ==
    /\ wr.pending # <<>>
    /\ wr' = [wr EXCEPT !.pending = <<>>, !.op = "return", !.before = wr.w.writer,
                        !.returned = wr.stack = <<>>]
    /\ UNCHANGED <<doc, events, ty, res, sv, mt, rd, rt>>

\* the routine returns Ok(()) holding the EMLElementContentWriter: no end tag is written
ReturnWithContentWriter ==
    /\ ~wr.failed /\ wr.pending = <<>> /\ wr.stack # <<>>
    /\ wr' = [wr EXCEPT !.stack = SubSeq(@, 1, Len(@) - 1),
                        !.op = "return", !.before = wr.w.writer,
                        !.returned = Len(wr.stack) = 1]
    /\ UNCHANGED <<doc, events, ty, res, sv, mt, rd, rt>>

NextWF == NextWR \/ ReturnWithElementWriter \/ ReturnWithContentWriter

SpecWF == InitWF /\ [][NextWF]_vars

(***************************************************************************)
(* Round trip: a document is parsed, the value of a successful parse is    *)
(* serialized with write_eml_root(false, false) and the output is parsed   *)
(* under Strict.                                                           *)
(***************************************************************************)
RoundTripIdentifierDocs ==
    {Elem(QN("ElectionIdentifier", NS_EML), <<Attr(QNone("Id"), id)>>,
          <<Leaf(QN("ElectionCategory", NS_EML), cat)>> \o opt \o <<date>>) :
        id \in {"TK2025", "x"}, cat \in {"TK", "x"},
        opt \in {<<>>, <<Leaf(QN("ElectionName", NS_EML), "n")>>,
                 <<Elem(QN("ElectionName", NS_EML), <<>>, <<>>)>>,
                 <<Leaf(QN("ElectionSubcategory", NS_KR), "TK")>>,
                 <<Elem(QN("ElectionDomain", NS_KR), <<Attr(QNone("Id"), "0363")>>, <<Txt("d")>>)>>},
        date \in {Leaf(QN("ElectionDate", NS_KR), "2025-10-05"),
                  Leaf(QN("ElectionDate", NS_KR), "2025-10-05Z"),
                  Leaf(QN("ElectionDate", NS_EML), "2025-10-05")}}
RoundTripElectionDocs ==
    {Elem(QN("Election", NS_EML), <<>>, kids) :
        kids \in ElectionReplacements
                 \cup {ValidElection, [ValidElection EXCEPT ![2] = ContestMaxVotes("1")],
                       [ValidElection EXCEPT ![6] =
                           Parties(<<Elem(RegisteredPartyName, <<>>,
                                          <<Elem(QN("RegisteredAppellation", NS_KR), <<>>,
                                                 <<Ref("amp")>>)>>)>>)]}}
ElectionDefinitionDocs ==
    {Elem(QN("EML", NS_EML),
          <<Attr(QNone("Id"), EML_ELECTION_DEFINITION_ID), Attr(QNone("SchemaVersion"), "5")>>,
          <<Leaf(QN("TransactionId", NS_EML), "1")>> \o canon
          \o <<Leaf(QN("CreationDateTime", NS_KR), created)>> \o issue
          \o <<Elem(QN("ElectionEvent", NS_EML), <<>>,
                    <<EmptyElem(QN("EventIdentifier", NS_EML), <<>>),
                      Elem(QN("Election", NS_EML), <<>>, ValidElection)>>)>>) :
        canon \in {<<>>, <<EmptyElem(QN("CanonicalizationMethod", NS_DS),
                                     <<Attr(QNone("Algorithm"), "c14n")>>)>>},
        created \in {"2025-10-05T12:00:00", "2025-10-05T12:00:00Z", "x"},
        issue \in {<<>>, <<Leaf(QN("IssueDate", NS_EML), "2025-10-05")>>,
                   <<Leaf(QN("IssueDate", NS_EML), "2025-10-05T12:00:00Z")>>}}
RoundTripBindings == RootBindings \cup {"ElectionDefinition"}
RoundTripDocs(b) ==
    CASE b = "CandidateList" ->
            {Elem(QN("EML", NS_EML), CandidateListAttrs, <<Leaf(QN("TransactionId", NS_EML), t)>>) :
                t \in {"1", "01", "x"}}
      [] b = "PollingStationsElectionIdentifier" -> RoundTripIdentifierDocs
      [] b = "ElectionDefinitionElection" -> RoundTripElectionDocs
      [] b = "ElectionDefinition" -> ElectionDefinitionDocs

InitRT ==
    /\ ty \in RoundTripBindings
    /\ doc \in RoundTripDocs(ty)
    /\ events = Flatten(doc)
    /\ res = [m \in EMLParsingMode |-> Pending]
    /\ sv = NoSV
    /\ mt = NoMT
    /\ rd = NoRD
    /\ wr = NoWR
    /\ rt = NoRT

\* EMLWrite::write_eml_root(false, false) on the value of a successful parse
Serialize(m) ==
    /\ res[m].outcome = "Ok" /\ rt.stage = "none"
    /\ \E order \in Orders(DOMAIN RootNamespaces) :
          rt' = [rt EXCEPT !.stage = "written", !.mode = m,
                           !.written = write_root(ty, res[m].value, FALSE, order)]
    /\ UNCHANGED <<doc, events, ty, res, sv, mt, rd, wr>>

\* T::parse_eml(output, Strict)
Reparse ==
    /\ rt.stage = "written" /\ rt.written.ok
    /\ rt' = [rt EXCEPT !.stage = "reparsed",
                        !.out = parse_eml(ty, init_from_written(rt.written.w.writer), "Strict")]
    /\ UNCHANGED <<doc, events, ty, res, sv, mt, rd, wr>>

NextRT == \/ \E m \in EMLParsingMode : Parse(m)
          \/ \E m \in EMLParsingMode : Serialize(m)
          \/ Reparse

SpecRT == InitRT /\ [][NextRT]_vars

(***************************************************************************)
(* Documents with names whose prefix is not bound, like the                *)
(* <eml:UnknownElement /> of test_unknown_namespace: as a child of the     *)
(* root, inside a child no slot declares, as the root, on an attribute     *)
(* before or after the one the binding asks for, and in a list of parties. *)
(***************************************************************************)
UnknownChild == EmptyElem(Unknown("TransactionId", "eml"), <<>>)
UnknownTree ==
    Elem(Unknown("UnknownElement", "x"), <<>>, <<Leaf(QN("TransactionId", NS_EML), "1")>>)
UnknownPrefixPool ==
    {UnknownChild, UnknownTree, Bogus, Leaf(QN("TransactionId", NS_EML), "1"),
     Elem(QN("Bogus", NS_EML), <<>>, <<UnknownChild>>)}
UnknownAttr == Attr(Unknown("Id", "x"), "TK2025")
IdentifierKids ==
    <<Leaf(QN("ElectionName", NS_EML), "n"), Leaf(QN("ElectionCategory", NS_EML), "TK"),
      Leaf(QN("ElectionDate", NS_KR), "2025-10-05")>>
UnknownPrefixDocs(b) ==
    CASE b = "CandidateList" ->
            {Elem(QN("EML", NS_EML), CandidateListAttrs, kids) :
                kids \in SeqsUpTo(UnknownPrefixPool, MaxChildren - 1)}
            \cup {Elem(Unknown("EML", "eml"), CandidateListAttrs, <<>>),
                  Elem(QN("EML", NS_EML), <<UnknownAttr>> \o CandidateListAttrs, <<>>),
                  Elem(QN("EML", NS_EML), CandidateListAttrs \o <<UnknownAttr>>, <<>>)}
      [] b = "PollingStationsElectionIdentifier" ->
            {Elem(QN("ElectionIdentifier", NS_EML), attrs, kids) :
                attrs \in {<<UnknownAttr, Attr(QNone("Id"), "TK2025")>>,
                           <<Attr(QNone("Id"), "TK2025"), UnknownAttr>>, <<UnknownAttr>>},
                kids \in {IdentifierKids, Append(IdentifierKids, UnknownChild),
                          Append(IdentifierKids, Bogus)}}
            \cup {Elem(Unknown("ElectionIdentifier", "eml"), <<Attr(QNone("Id"), "TK2025")>>,
                       IdentifierKids)}
      [] b = "ElectionDefinitionElection" ->
            {Elem(QN("Election", NS_EML), <<>>, [ValidElection EXCEPT ![6] = Parties(kids)]) :
                kids \in {<<UnknownChild>>, <<Party("p"), UnknownTree>>,
                          <<Party("p"), Party("q")>>,
                          <<Elem(RegisteredPartyName, <<>>, <<UnknownChild>>)>>}}

InitNS ==
    /\ ty \in RootBindings
    /\ doc \in UnknownPrefixDocs(ty)
    /\ events = Flatten(doc)
    /\ res = [m \in EMLParsingMode |-> Pending]
    /\ sv = NoSV
    /\ mt = NoMT
    /\ rd = NoRD
    /\ wr = NoWR
    /\ rt = NoRT

SpecNS == InitNS /\ [][Next]_vars

(***************************************************************************)
(* Properties.  The documents are described independently of the reader:   *)
(* which children of the root no slot declares, where their start tags     *)
(* are, which slots have no child.                                         *)
(***************************************************************************)
Done(m) == res[m].outcome # "Pending"
Lenient == {"StrictFallback", "Loose"}

\* the reader of the root element, and whether the binding gets to iterate its children
RootReader == from_start(events[1], doc.empty, Span(0, 1))
ReadsChildren ==
    ty = "CandidateList" => doc.name = QN("EML", NS_EML) /\ doc.attrs = CandidateListAttrs

\* the children of the root that no child slot of the binding declares
Declared(b, name) ==
    \E j \in 1..Len(Slots(b)) : Slots(b)[j].kind # "direct" /\ Slots(b)[j].name = name
Unexpected(d, b) ==
    {i \in 1..Len(d.kids) : d.kids[i].node = "elem" /\ ~Declared(b, d.kids[i].name)}
UnexpectedElementAt(d, i) ==
    Positioned(Kind("UnexpectedElement", d.kids[i].name, d.name), ChildSpan(d, i))

\* the errors a result reports: the non-fatal list of a success, the elements of the
\* error of a failure
ErrorList(r) ==
    IF r.outcome = "Ok" THEN r.errors
    ELSE IF r.err.tag = "Multiple" THEN r.err.errors ELSE <<r.err>>
Occurrences(e, list) == Cardinality({k \in 1..Len(list) : list[k] = e})

\* C1: under Strict, a child of the root that matches no declared slot makes the parse
\* fail; when it is the first child the cause is UnexpectedElement{child, parent} at
\* the child's start tag and nothing was recorded before it.
C1_StrictFailsOnUnexpectedChild ==
    (Done("Strict") /\ ReadsChildren /\ Unexpected(doc, ty) # {}) =>
        /\ res["Strict"].outcome = "Err"
        /\ 1 \in Unexpected(doc, ty) =>
              /\ res["Strict"].cause = UnexpectedElementAt(doc, 1)
              /\ res["Strict"].recorded = <<>>

\* C2: under StrictFallback and Loose no parse fails because of an unexpected element
\* (in the slot iteration or in a list-reading routine), and a successful parse holds
\* exactly one UnexpectedElement error, at the child's start tag, for every child of
\* the root that no slot declares.
C2_LenientRecordsUnexpected ==
    \A m \in Lenient : Done(m) =>
        /\ res[m].outcome = "Err" => kind(res[m].err).name # "UnexpectedElement"
        /\ (res[m].outcome = "Ok" /\ ReadsChildren) =>
              \A i \in Unexpected(doc, ty) :
                  Occurrences(UnexpectedElementAt(doc, i), res[m].errors) = 1

\* C3: if the parse succeeds under Strict, it succeeds under StrictFallback with an
\* equal value and an empty non-fatal list.
C3_StrictSuccessIsCleanFallbackSuccess ==
    (Done("Strict") /\ Done("StrictFallback") /\ res["Strict"].outcome = "Ok") =>
        /\ res["StrictFallback"].outcome = "Ok"
        /\ res["StrictFallback"].value = res["Strict"].value
        /\ res["StrictFallback"].errors = <<>>

C5_ValueFollowsMode ==
    sv.called =>
        LET p == parse_from_str(sv.t, sv.text)
            invalid == Positioned(Kind1("InvalidValue", sv.name), sv.span)
        IN  CASE sv.mode = "Strict" ->
                    IF p.ok THEN sv.out = SV(TRUE, Parsed(p.v), NoError, sv.errors)
                    ELSE sv.out = SV(FALSE, NoneV, invalid, sv.errors)
              [] sv.mode = "StrictFallback" ->
                    IF p.ok THEN sv.out = SV(TRUE, Parsed(p.v), NoError, sv.errors)
                    ELSE sv.out = SV(TRUE, Raw(sv.text), NoError, Append(sv.errors, invalid))
              [] sv.mode = "Loose" -> sv.out = SV(TRUE, Raw(sv.text), NoError, sv.errors)

\* a text the field type rejects, constructed under StrictFallback after an earlier error
C5_FallbackKeepsRaw ==
    /\ sv.called /\ sv.mode = "StrictFallback" /\ sv.errors # <<>>
    /\ ~parse_from_str(sv.t, sv.text).ok
    /\ sv.out.val = Raw(sv.text)
    /\ Len(sv.out.errors) = Len(sv.errors) + 1

\* the state of the slots of the root after its children have been iterated, the
\* required slots still empty, and the direct slots that fail to evaluate
Iterated(m) ==
    collect_loop(ty, events, m, RootReader, 2, <<>>, [j \in 1..Len(Slots(ty)) |-> EmptySlot])
EmptyRequired(it) ==
    {j \in 1..Len(Slots(ty)) : Slots(ty)[j].kind = "field" /\ ~it.vals[j].some}
DirectFails(j, m) ==
    /\ Slots(ty)[j].kind = "direct"
    /\ \/ \A k \in 1..Len(doc.attrs) : doc.attrs[k].key # Slots(ty)[j].name
       \/ /\ m = "Strict"
          /\ \E k \in 1..Len(doc.attrs) :
                /\ doc.attrs[k].key = Slots(ty)[j].name
                /\ ~parse_from_str(Slots(ty)[j].t, doc.attrs[k].value).ok
MissingElementAtEnd(j) ==
    Positioned(Kind1("MissingElement", Slots(ty)[j].name), EndSpan(doc))
\* an optional slot without a child yields an absent field and no MissingElement
OptionalAbsent(m) ==
    (res[m].outcome = "Ok" /\ ty = "PollingStationsElectionIdentifier") =>
        /\ \A j \in {2, 4, 5} :
              (\A i \in 1..Len(doc.kids) : doc.kids[i].name # Slots(ty)[j].name)
                  => res[m].value.sub[j] = NoneV
        /\ \A k \in 1..Len(res[m].errors) : res[m].errors[k].kind.name # "MissingElement"

\* C6 as stated: once the children have been iterated, an empty required slot makes
\* the read fail, in every mode, with MissingElement naming the first-declared empty
\* required slot at the last span the element reader consumed; empty optional slots
\* yield absent and raise nothing.
C6_MissingElementForFirstEmptySlot ==
    \A m \in EMLParsingMode : (Done(m) /\ ReadsChildren) =>
        /\ (Iterated(m).ok /\ EmptyRequired(Iterated(m)) # {}) =>
              /\ res[m].outcome = "Err"
              /\ res[m].cause = MissingElementAtEnd(Min(EmptyRequired(Iterated(m))))
        /\ OptionalAbsent(m)

\* C6: the same, unless a direct slot declared before the first empty required slot
\* fails to evaluate (its attribute is missing, or has an invalid value under Strict):
\* then the read fails with the error of the first such direct slot, positioned at the
\* element's start tag.
C6_MissingElementUnlessDirectSlotFails ==
    \A m \in EMLParsingMode : (Done(m) /\ ReadsChildren) =>
        /\ (Iterated(m).ok /\ EmptyRequired(Iterated(m)) # {}) =>
              LET first == Min(EmptyRequired(Iterated(m)))
                  failing == {j \in 1..first : DirectFails(j, m)}
              IN  /\ res[m].outcome = "Err"
                  /\ failing = {} => res[m].cause = MissingElementAtEnd(first)
                  /\ failing # {} =>
                        /\ res[m].cause.kind.name \in {"MissingAttribute", "InvalidValue"}
                        /\ res[m].cause.kind.a = Slots(ty)[Min(failing)].name
                        /\ res[m].cause.span = Span(0, 1)
        /\ OptionalAbsent(m)

\* under Loose, several required slots are empty after the iteration and the first is
\* reported
C6_SeveralEmptySlots ==
    /\ Done("Loose") /\ ReadsChildren
    /\ Iterated("Loose").ok
    /\ Cardinality(EmptyRequired(Iterated("Loose"))) >= 2
    /\ doc.kids # <<>>
    /\ res["Loose"].cause = MissingElementAtEnd(Min(EmptyRequired(Iterated("Loose"))))

\* the slots of the list that declare the name of the child
Hits == {j \in 1..Len(mt.slots) :
            mt.slots[j].kind # "direct" /\ mt.slots[j].name = mt.child.name}

C8_MultipleIsRecordedThenCause ==
    \A m \in EMLParsingMode : (Done(m) /\ res[m].outcome = "Err") =>
        /\ res[m].recorded # <<>> =>
              res[m].err = Multiple(res[m].recorded \o <<res[m].cause>>)
        /\ res[m].recorded = <<>> =>
              /\ res[m].err = res[m].cause
              /\ res[m].err.tag = "Positioned"
        /\ from_vec_with_additional(<<>>, res[m].cause) = res[m].cause

\* a failure after two recorded errors
C8_FailureAfterTwoRecorded ==
    \E m \in EMLParsingMode :
        /\ Done(m) /\ res[m].outcome = "Err"
        /\ Len(res[m].recorded) = 2
        /\ res[m].err.tag = "Multiple"
        /\ Len(res[m].err.errors) = 3

C10_RecordedErrorsAreNonFatal ==
    \A m \in EMLParsingMode : Done(m) =>
        /\ \A k \in 1..Len(res[m].errors) : ~is_fatal(res[m].errors[k])
        /\ res[m].err.tag = "Multiple" =>
              \A k \in 1..(Len(res[m].err.errors) - 1) : ~is_fatal(res[m].err.errors[k])

\* C11: the non-fatal errors recorded during one parse are in document order: of two
\* consecutive entries of the accumulated list, the earlier one does not start after
\* the later one.
C11_RecordedInDocumentOrder ==
    \A m \in EMLParsingMode : Done(m) =>
        \A k \in 1..(Len(res[m].recorded) - 1) :
            res[m].recorded[k].span.start <= res[m].recorded[k + 1].span.start

\* the number of elements still open at the end of the input
RECURSIVE OpenAtEnd(_, _)
OpenAtEnd(input, i) ==
    IF i > Len(input) THEN 0
    ELSE OpenAtEnd(input, i + 1)
         + (IF input[i].type = "Start" THEN 1 ELSE IF input[i].type = "End" THEN -1 ELSE 0)
StructuralError ==
    \/ \E k \in 1..Len(events) : events[k].type = "Error"
    \/ OpenAtEnd(events, 1) > 0

\* C12: if the input holds a structural XML error anywhere (a malformed token, an end
\* tag that does not match its start tag, the end of the input before an open element
\* is closed), the parse returns an error and no value, in every mode.
C12_StructuralErrorFailsParse ==
    \A m \in EMLParsingMode : (Done(m) /\ StructuralError) =>
        /\ res[m].outcome = "Err"
        /\ res[m].value = NoneV

\* the event the innermost reader was about to read before the last operation
BeforeIndex == rd.before.pos
AtEnd == BeforeIndex > Len(rd.input)
BeforeEvent == rd.input[BeforeIndex]

\* C13: an open element reader pulls an event.  An End that brings the depth to zero
\* closes the reader and reports the end of the content when its name is the name of
\* the reader's start tag, and yields UnexpectedEndElement at that End otherwise; the
\* end of the input yields UnexpectedEof; an End that leaves the depth above zero only
\* decreases the depth, whatever its name, and is handed on.
C13_ElementReaderEnds ==
    (rd.op = "next" /\ ~rd.before.er.found_matching_end) =>
        /\ AtEnd => rd.out.out = "Err" /\ rd.out.err.kind.name = "UnexpectedEof"
        /\ (~AtEnd /\ BeforeEvent.type = "End" /\ rd.before.er.depth = 1) =>
              IF BeforeEvent.name = rd.before.er.start.name
              THEN rd.out.out = "None" /\ Top.found_matching_end
              ELSE /\ rd.out.out = "Err"
                   /\ rd.out.err = Positioned(Kind0("UnexpectedEndElement"),
                                              Span(BeforeIndex - 1, BeforeIndex))
                   /\ ~Top.found_matching_end
        /\ (~AtEnd /\ BeforeEvent.type = "End" /\ rd.before.er.depth > 1) =>
              /\ rd.out.out = "Some" /\ rd.out.evt = BeforeEvent
              /\ Top.depth = rd.before.er.depth - 1
              /\ ~Top.found_matching_end

\* a child reader meets, at depth zero, an end tag of another name
C13_MismatchedEndAtDepthZero ==
    /\ rd.op = "next" /\ Len(rd.stack) = 2
    /\ ~AtEnd /\ BeforeEvent.type = "End" /\ rd.before.er.depth = 1
    /\ BeforeEvent.name # rd.before.er.start.name
    /\ rd.out.err.kind.name = "UnexpectedEndElement"

\* a well-formed input: every end tag closes the innermost open element, nothing is
\* left open and no token is malformed
RECURSIVE Balanced(_, _, _)
Balanced(input, i, open) ==
    IF i > Len(input) THEN open = <<>>
    ELSE IF input[i].type = "Error" THEN FALSE
    ELSE IF input[i].type = "Start" THEN Balanced(input, i + 1, Append(open, input[i].name))
    ELSE IF input[i].type = "End"
    THEN /\ open # <<>>
         /\ open[Len(open)] = input[i].name
         /\ Balanced(input, i + 1, SubSeq(open, 1, Len(open) - 1))
    ELSE Balanced(input, i + 1, open)
WellFormed(input) == Balanced(input, 1, <<>>)

\* the index of the end tag of the element whose start tag is event i of a
\* well-formed input (i itself for a self-closing tag)
RECURSIVE ClosedAt(_, _, _)
ClosedAt(input, j, d) ==
    IF input[j].type = "End"
    THEN IF d = 1 THEN j ELSE ClosedAt(input, j + 1, d - 1)
    ELSE ClosedAt(input, j + 1, IF input[j].type = "Start" THEN d + 1 ELSE d)
EndIndex(input, i) == IF input[i].type = "Empty" THEN i ELSE ClosedAt(input, i + 1, 1)

\* C14: on a well-formed input, when a child reader returned by next_child goes out of
\* scope, whatever part of its content it has consumed, the parent reads on at the
\* event that follows the child's end tag (or self-closing tag); and handing out the
\* child left the parent's depth as it was before the child's start tag was read
\* (the depth before the call, less the end tags passed on the way to the child).
C14_DroppedChildIsSkipped ==
    WellFormed(rd.input) =>
        /\ rd.op = "drop" => rd.pos = EndIndex(rd.input, rd.before.er.span.end) + 1
        /\ (rd.op = "next_child" /\ rd.out.out = "Some") =>
              /\ Top.span.end = rd.pos - 1
              /\ rd.stack[Len(rd.stack) - 1].depth =
                    rd.before.er.depth
                    - Cardinality({k \in rd.before.pos..(rd.pos - 2) : rd.input[k].type = "End"})

\* a child is dropped inside a nested element of its content, part of it unread
C14_DroppedInsideNested ==
    /\ WellFormed(rd.input)
    /\ rd.op = "drop"
    /\ rd.before.er.depth > 1
    /\ rd.before.pos > rd.before.er.span.end + 1
    /\ rd.pos > rd.before.pos + 1

\* the events of character content, what each contributes to the text, and the first
\* event from i on that is not among the kinds given
Resolvable(e) == e.type = "GeneralRef" => e.text \in DOMAIN Entities
Content(e) ==
    IF e.type = "GeneralRef" THEN Entities[e.text]
    ELSE IF e.type = "Comment" THEN "" ELSE e.text
RECURSIVE Concat(_, _, _)
Concat(input, i, j) == IF i >= j THEN "" ELSE Content(input[i]) \o Concat(input, i + 1, j)
FirstOther(kinds) ==
    Min({j \in BeforeIndex..(Len(rd.input) + 1) :
            j = Len(rd.input) + 1 \/ rd.input[j].type \notin kinds \/ ~Resolvable(rd.input[j])})
\* text_without_children was called on the reader of an element with an end tag that
\* had read nothing of its content
TextRead ==
    /\ rd.op = "text"
    /\ ~rd.before.er.is_empty
    /\ rd.before.pos = rd.before.er.span.end + 1
OwnEnd(j) ==
    /\ j <= Len(rd.input) /\ rd.input[j].type = "End"
    /\ rd.input[j].name = rd.before.er.start.name
UnexpectedEventAt(j) == Positioned(Kind0("UnexpectedEvent"), Span(j - 1, j))

InvalidValues(m) ==
    {e \in {res[m].recorded[k] : k \in 1..Len(res[m].recorded)} \cup {res[m].cause} :
        e.kind.name = "InvalidValue"}
\* the field of the error is an element of the input (and not an attribute)
ElementValued(e) ==
    \E i \in 1..Len(events) : events[i].type \in {"Start", "Empty"} /\ events[i].name = e.kind.a
\* sp runs from the end of an opening tag of f to the start of its closing tag
InnerContentOf(f, sp) ==
    \E i \in 1..Len(events) : \E j \in (i + 1)..Len(events) :
        /\ events[i].type = "Start" /\ events[i].name = f
        /\ events[j].type = "End" /\ events[j].name = f
        /\ \A k \in (i + 1)..(j - 1) : events[k].type \notin {"Start", "Empty", "End"}
        /\ sp = Span(i, j - 1)
\* f is a self-closing element, which has no closing tag
SelfClosing(f, sp) ==
    \E i \in 1..Len(events) :
        events[i].type = "Empty" /\ events[i].name = f /\ sp = inner_span(from_start(events[i], TRUE, Span(i - 1, i)))

\* C16: an InvalidValue error for the text content of an element, returned under
\* Strict or recorded under StrictFallback, carries the span of the inner content of
\* the element: from the end of its opening tag to the start of its closing tag.
C16_InvalidValueSpansInnerContent ==
    \A m \in EMLParsingMode : Done(m) =>
        \A e \in InvalidValues(m) :
            ElementValued(e) => InnerContentOf(e.kind.a, e.span) \/ SelfClosing(e.kind.a, e.span)
\* the same for every field but MaxVotes
C16_InnerContentButMaxVotes ==
    \A m \in EMLParsingMode : Done(m) =>
        \A e \in InvalidValues(m) :
            ElementValued(e) /\ e.kind.a # QN("MaxVotes", NS_EML)
                => InnerContentOf(e.kind.a, e.span) \/ SelfClosing(e.kind.a, e.span)


\* the SchemaVersion attribute of the root element of the input
SchemaVersion == attribute_value(RootReader, QNone("SchemaVersion"))
OtherSchemaVersion ==
    /\ ty = "CandidateList"
    /\ IsResolvedName(events[1].name, QN("EML", NS_EML))
    /\ SchemaVersion.some /\ SchemaVersion.value # "5"

\* C17: a document with root element EML whose SchemaVersion attribute is v, v not
\* "5", fails in every parsing mode with SchemaVersionNotSupported(v) at the start tag
\* of the root; the Id attribute and the children play no part and no non-fatal
\* error is recorded.
C17_OtherSchemaVersionIsFatal ==
    OtherSchemaVersion =>
        \A m \in EMLParsingMode : Done(m) =>
            /\ res[m].outcome = "Err"
            /\ res[m].err = Positioned(Kind1("SchemaVersionNotSupported", QNone(SchemaVersion.value)),
                                       Span(0, 1))
            /\ res[m].recorded = <<>>
\* a version "4" document without Id and with an unknown child, parsed in every mode
C17_OtherVersionWithoutId ==
    /\ OtherSchemaVersion
    /\ ~attribute_value(RootReader, QNone("Id")).some
    /\ \E k \in 1..Len(events) : events[k].name = QN("Bogus", NS_EML)
    /\ \A m \in EMLParsingMode : Done(m)


\* the Strict parse succeeded with transaction id "1" and no non-fatal error
StrictParseOfMinimal ==
    /\ res["Strict"].outcome = "Ok"
    /\ res["Strict"].value.variant = "Struct"
    /\ Len(res["Strict"].value.sub) = 1
    /\ raw(res["Strict"].value.sub[1]) = "1"
    /\ res["Strict"].errors = <<>>

\* C18: the input <EML Id="230b" SchemaVersion="5"><TransactionId>1</TransactionId></EML>
\* parses under Strict to a candidate list whose transaction id has raw text "1",
\* with no non-fatal error.
C18_MinimalDocumentParses ==
    ty = "CandidateList" /\ doc = MinimalDocWithoutNamespace /\ Done("Strict")
        => StrictParseOfMinimal
\* the same document with the EML namespace as default namespace of the root
C18_MinimalDocumentInNamespaceParses ==
    ty = "CandidateList" /\ doc = MinimalDoc /\ Done("Strict") => StrictParseOfMinimal
\* without the namespace the root element is refused
C18_WithoutNamespaceInvalidRoot ==
    ty = "CandidateList" /\ doc = MinimalDocWithoutNamespace /\ Done("Strict")
        => res["Strict"].err = Positioned(Kind0("InvalidRootElement"), Span(0, 1))
C18_MinimalDocumentParsed ==
    ty = "CandidateList" /\ doc = MinimalDoc /\ Done("Strict")


\* the configuration of the writer, and the prefixes its table maps to a namespace
DefaultNamespace == wr.w.ns_definitions.default_namespace_uri
PrefixesOf(ns) ==
    {p \in DOMAIN wr.w.ns_definitions.namespace_definitions :
        wr.w.ns_definitions.namespace_definitions[p] = ns}

\* C20: an element in the default namespace is written without prefix; an element
\* in another namespace is written with a prefix the table maps to that namespace,
\* and fails with UnknownNamespace if there is none; an element without namespace
\* fails with ElementNamespaceError if a default namespace is configured and is
\* written without prefix otherwise.  A failure emits nothing.
C20_ElementNameResolution ==
    wr.op = "new" =>
        LET ns == wr.name.namespace
            local == wr.name.local_name
        IN  /\ (ns # <<>> /\ ns = DefaultNamespace) =>
                  wr.out.ok /\ wr.out.tag = Tag(<<>>, local)
            /\ (ns # <<>> /\ ns # DefaultNamespace /\ PrefixesOf(ns[1]) # {}) =>
                  wr.out.ok /\ \E p \in PrefixesOf(ns[1]) : wr.out.tag = Tag(<<p>>, local)
            /\ (ns # <<>> /\ ns # DefaultNamespace /\ PrefixesOf(ns[1]) = {}) =>
                  /\ ~wr.out.ok
                  /\ wr.out.err = UnknownPosition(Kind1("UnknownNamespace", QNone(ns[1])))
            /\ (ns = <<>> /\ DefaultNamespace # <<>>) =>
                  /\ ~wr.out.ok
                  /\ wr.out.err = UnknownPosition(Kind0("ElementNamespaceError"))
            /\ (ns = <<>> /\ DefaultNamespace = <<>>) =>
                  wr.out.ok /\ wr.out.tag = Tag(<<>>, local)
            /\ ~wr.out.ok => wr.w.writer = wr.before /\ wr.pending = <<>>
\* a child without namespace is requested inside an open element of a writer with a
\* default namespace
C20_UnqualifiedChildUnderDefault ==
    /\ wr.op = "new" /\ wr.name.namespace = <<>> /\ DefaultNamespace # <<>>
    /\ wr.stack # <<>> /\ wr.before # <<>>


\* C19: the serialization of a value produced by a binding succeeds, and parsing the
\* output under Strict succeeds with a value equal to the serialized one.
C19_RoundTrip ==
    rt.stage # "none" =>
        /\ rt.written.ok
        /\ rt.stage = "reparsed" =>
              rt.out.outcome = "Ok" /\ rt.out.value = res[rt.mode].value

\* C21: an attribute in the writer's default namespace is rejected with
\* AttributeNamespaceError even if the prefix table has a prefix for that namespace;
\* an attribute without namespace is written unprefixed; an attribute in another
\* namespace is written with a prefix the table maps to it, or fails with
\* UnknownNamespace.  A rejected attribute is not pushed: the start tag the element
\* writer held is as it was, and nothing is emitted.
AttributeResolved ==
    wr.op = "attr" =>
        LET ns == wr.name.namespace
            local == wr.name.local_name
        IN  /\ (ns # <<>> /\ ns = DefaultNamespace) =>
                  /\ ~wr.out.ok
                  /\ wr.out.err = UnknownPosition(Kind0("AttributeNamespaceError"))
            /\ ns = <<>> => wr.out.ok /\ wr.out.tag = Tag(<<>>, local)
            /\ (ns # <<>> /\ ns # DefaultNamespace /\ PrefixesOf(ns[1]) # {}) =>
                  wr.out.ok /\ \E p \in PrefixesOf(ns[1]) : wr.out.tag = Tag(<<p>>, local)
            /\ (ns # <<>> /\ ns # DefaultNamespace /\ PrefixesOf(ns[1]) = {}) =>
                  /\ ~wr.out.ok
                  /\ wr.out.err = UnknownPosition(Kind1("UnknownNamespace", QNone(ns[1])))
            /\ wr.out.ok => wr.pending # <<>>
                            /\ wr.pending[1].attrs[Len(wr.pending[1].attrs)]
                                   = Attr(wr.out.tag, "v")
RejectedAttributeNotPushed ==
    (wr'.op = "attr" /\ ~wr'.out.ok) =>
        wr'.dropped = wr.pending /\ wr'.w = wr.w /\ wr'.stack = wr.stack
C21_AttributeNameResolution == []AttributeResolved /\ [][RejectedAttributeNotPushed]_vars
\* an attribute in the default namespace, for which the table has a prefix as well, is
\* rejected on an element that already holds an attribute
C21_DefaultNamespaceAttributeWithPrefix ==
    /\ wr.op = "attr" /\ wr.name.namespace # <<>> /\ wr.name.namespace = DefaultNamespace
    /\ PrefixesOf(wr.name.namespace[1]) # {}
    /\ ~wr.out.ok /\ wr.dropped # <<>> /\ wr.dropped[1].attrs # <<>>

\* the start tags open after the first n written items; "mismatch" when an end tag
\* closed no start tag or one of another name
RECURSIVE OpenAfter(_, _)
OpenAfter(written, n) ==
    IF n = 0 THEN <<>>
    ELSE (CHOOSE the \in {
            IF open = "mismatch" THEN open
            ELSE IF written[n].type = "Start" THEN Append(open, written[n].tag)
            ELSE IF written[n].type # "End" THEN open
            ELSE IF open = <<>> \/ open[Len(open)] # written[n].tag THEN "mismatch"
            ELSE SubSeq(open, 1, Len(open) - 1) :
            open \in {OpenAfter(written, n - 1)}} : TRUE)
HasUnknownPrefix(evt, prefix) ==
    /\ evt.type \in {"Start", "Empty"}
    /\ \/ evt.name.namespace = <<prefix, "Unknown">>
       \/ \E k \in 1..Len(evt.attrs) : evt.attrs[k].key.namespace = <<prefix, "Unknown">>
UnknownNamespaceErrors(m) ==
    {e \in {res[m].cause} \cup {ErrorList(res[m])[k] : k \in 1..Len(ErrorList(res[m]))}
            \cup {res[m].recorded[k] : k \in 1..Len(res[m].recorded)} :
        e # NoError /\ kind(e).name = "UnknownNamespace"}
\* the children of the root whose name has an unbound prefix
UnknownChildren == {i \in 1..Len(doc.kids) : doc.kids[i].node = "elem" /\ is_unknown(doc.kids[i].name)}
FirstUnknownChild == Min(UnknownChildren)
UnknownChildError ==
    Positioned(Kind1("UnknownNamespace", QNone(doc.kids[FirstUnknownChild].name.namespace[1])),
               ChildSpan(doc, FirstUnknownChild))

\* C23: an UnknownNamespace error carries exactly the unbound prefix of a name of an
\* element or attribute and is positioned at the start tag of that element; a child
\* of the root whose prefix is unbound makes the read fail in every parsing mode, with
\* that error for the first such child unless the read failed before it, and the child
\* is never recorded as an unexpected element.
C23_UnknownNamespaceFails ==
    \A m \in EMLParsingMode :
        Done(m) =>
            /\ \A e \in UnknownNamespaceErrors(m) :
                  /\ e.tag = "Positioned"
                  /\ \E i \in 1..Len(events) :
                        /\ span(e) = Span(i - 1, i)
                        /\ kind(e) = Kind1("UnknownNamespace", QNone(kind(e).a.local_name))
                        /\ HasUnknownPrefix(events[i], kind(e).a.local_name)
            /\ (ReadsChildren /\ ~is_unknown(doc.name) /\ UnknownChildren # {}) =>
                  /\ res[m].outcome = "Err"
                  /\ \/ res[m].cause = UnknownChildError
                     \/ span(res[m].cause).start < ChildSpan(doc, FirstUnknownChild).start
                  /\ \A i \in UnknownChildren, k \in 1..Len(res[m].recorded) :
                        ~(/\ kind(res[m].recorded[k]).name = "UnexpectedElement"
                          /\ span(res[m].recorded[k]) = ChildSpan(doc, i))
\* a lenient read recorded an unexpected child and then failed on the child with the
\* unbound prefix that follows it
C23_UnknownChildAfterRecorded ==
    /\ \A m \in EMLParsingMode : Done(m)
    /\ ty = "CandidateList" /\ Len(doc.kids) = 2 /\ doc.kids[1] = Bogus
    /\ doc.kids[2] = UnknownTree
    /\ res["Loose"].outcome = "Err" /\ res["Loose"].cause = UnknownChildError
    /\ Len(res["Loose"].recorded) = 1
    /\ res["StrictFallback"].cause = UnknownChildError

\* the elements open at the cursor p, counted from the start tag at event s, and the
\* event after the end tag of the element that starts at event s
OpenDepth(input, s, p) ==
    Cardinality({i \in s..(p - 1) : input[i].type = "Start"})
    - Cardinality({i \in s..(p - 1) : input[i].type = "End"})
AfterEndOf(input, s) ==
    1 + Min({p \in s..Len(input) : input[p].type = "End" /\ OpenDepth(input, s, p + 1) = 0})
AfterFailedText ==
    /\ rd.op \in {"skip", "drop"}
    /\ rd.prev.op = "text" /\ rd.prev.err # NoError
    /\ kind(rd.prev.err).name = "UnexpectedEvent"
    /\ rd.input \in {Flatten(t) : t \in ReaderTrees}
\* C24: on well-formed input, a skip (explicit or on drop) that follows a
\* text_without_children that failed with UnexpectedEvent consumes the rest of the
\* element, the nested element the failure occurred in included, and stops right after
\* the end tag of the element; every enclosing reader's depth is the number of
\* elements open at the cursor.
C24_SkipAfterFailedText ==
    AfterFailedText =>
        /\ rd.pos = AfterEndOf(rd.input, rd.before.er.span.end)
        /\ rd.op = "skip" =>
              /\ rd.out.out = "None" /\ Top.found_matching_end /\ Top.depth = 0
        /\ \A k \in 1..(Len(rd.stack) - (IF rd.op = "skip" THEN 1 ELSE 0)) :
              rd.stack[k].depth = OpenDepth(rd.input, rd.stack[k].span.end, rd.pos)
\* a child reader is dropped after its text failed at a nested start tag
C24_DroppedAfterNestedStart ==
    /\ AfterFailedText /\ rd.op = "drop"
    /\ rd.before.er.depth = 2
    /\ rd.input[rd.before.er.last_span.end].type = "Start"
    /\ rd.pos > rd.before.pos + 2

\* C25: parse_eml returns on every input; on an input without a start tag or an empty
\* tag the search for the root element stops at the end of the input and the parse
\* returns a fatal error.
C25_ParseReturnsWithoutRoot ==
    \A m \in EMLParsingMode :
        Done(m) => /\ res[m].outcome = "Err"
                   /\ is_fatal(res[m].err)

ValidSpan(s) == s.start <= s.end
\* C27: every span the reader produces has start <= end: the span of an event, span(),
\* last_span(), full_span() and inner_span() of every element reader at every point of
\* its consumption, and the span of every error.
C27_SpansOrdered ==
    /\ \A k \in 1..Len(rd.stack) :
          /\ ValidSpan(rd.stack[k].span) /\ ValidSpan(rd.stack[k].last_span)
          /\ ValidSpan(full_span(rd.stack[k])) /\ ValidSpan(inner_span(rd.stack[k]))
    /\ ValidSpan(rd.out.span)
    /\ rd.out.err # NoError => ValidSpan(span(rd.out.err))

\* a 230b document whose root has two or more children, all of them TransactionId
\* elements with text
RepeatedTransactionId ==
    /\ ty = "CandidateList" /\ ReadsChildren /\ Len(doc.kids) >= 2
    /\ \A i \in 1..Len(doc.kids) :
          doc.kids[i] \in {Leaf(QN("TransactionId", NS_EML), t) : t \in {"1", "01", "x"}}
Unparsable == {i \in 1..Len(doc.kids) : doc.kids[i].kids[1].text = "x"}
WithLastChildOnly == Elem(doc.name, doc.attrs, <<doc.kids[Len(doc.kids)]>>)
\* C28: when several children match the same slot, each of them is decoded and
\* consumed, the slot holds the value of the last one, and the repetition itself
\* raises and records no error in any parsing mode: the only errors are those of the
\* values that do not parse.
C28_LastMatchingChildWins ==
    RepeatedTransactionId =>
        \A m \in EMLParsingMode :
            (Done(m) /\ (m = "Strict" => Unparsable = {})) =>
                /\ res[m].outcome = "Ok"
                /\ res[m].value = parse_eml(ty, Flatten(WithLastChildOnly), m).value
                /\ res[m].pos = Len(events) + 1
                /\ Len(res[m].errors) = IF m = "StrictFallback" THEN Cardinality(Unparsable) ELSE 0
                /\ \A k \in 1..Len(res[m].errors) :
                      /\ kind(res[m].errors[k]).name = "InvalidValue"
                      /\ \E i \in Unparsable :
                            span(res[m].errors[k]).start = ChildSpan(doc, i).end
\* three TransactionId children with different texts, the last one parsable
C28_ThreeTransactionIds ==
    /\ RepeatedTransactionId /\ Len(doc.kids) = 3
    /\ doc.kids[1].kids[1].text = "x" /\ doc.kids[2].kids[1].text = "1"
    /\ doc.kids[3].kids[1].text = "01"
    /\ \A m \in Lenient : Done(m) /\ res[m].outcome = "Ok"
    /\ Len(res["StrictFallback"].errors) = 1

\* C29: serialization is deterministic: every write_eml_root call on the same value with
\* the same flags returns the same output, the order of the xmlns:prefix declarations
\* of the root element included.
C29_SerializationDeterministic ==
    rt.stage # "none" =>
        \A order \in Orders(DOMAIN RootNamespaces) :
            rt.written = write_root(ty, res[rt.mode].value, FALSE, order)

\* C30: the raw text of a typed field is preserved in every parsing mode: raw() of the
\* StringValue built from the text t is t, under Strict, StrictFallback and Loose.
C30_RawTextPreserved ==
    (sv.called /\ sv.out.ok) => raw(sv.out.val) = sv.text

====
